---- MODULE Spec2Model ----
(***************************************************************************)
(* Model of the markdown block converter (src/src/notion/                  *)
(* markdown_converter.py) and of the title inference of the pipeline       *)
(* (src/src/pipeline.py).  Python strings are TLA+ strings; positions are  *)
(* 0-based as in the source and turned into 1-based sequence positions     *)
(* only inside Slice and At.                                               *)
(***************************************************************************)
EXTENDS Integers, Sequences, FiniteSets, TLC

VARIABLES
    mode,           \* which function the run exercises: "convert", "inline", "title", ...
    pc,             \* position in that function
    markdown_text,  \* argument of convert_markdown_to_notion_blocks
    lines,          \* markdown_text.split('\n')
    i,              \* the scan cursor (0-based)
    blocks,         \* the block list built so far
    text,           \* argument of process_inline_formatting
    result,         \* its returned span list
    content,        \* the content record of process: 'title' and 'summary'
    extracted,      \* what _extract_title_from_summary returned
    title_in,       \* argument of _capitalize_title
    title_out,      \* its return value
    ex_summary,     \* argument of _extract_title_from_summary
    ex_overview,    \* overview_text, once the Overview section is located
    ex_k,           \* place in the patterns list of the running for loop
    ex_tried,       \* the searches evaluated so far, in order
    ex_ret,         \* the value returned
    tasks,          \* the running calls of process: url, position, content record
    extractor,      \* the YouTubeExtractor of every pipeline object: its video_id
    store,          \* the pages created in the document store, in order
    max_retries,    \* argument of summarize_with_openai
    retry_delay,    \* argument of summarize_with_openai
    attempt,        \* the failed attempts counted so far
    current_delay,  \* the wait before the next attempt
    last_error,     \* the last transient error caught
    api_calls,      \* the outcome of every call of the completion API, in order
    sleeps,         \* the argument of every time.sleep, in order
    reply,          \* how summarize_with_openai ended: the value returned or raised
    input_file,     \* the lines of the input file
    urls,           \* the urls read from the input file, in file order
    results         \* main's results: the 'success' and the 'failures' list

converterVars == <<markdown_text, lines, i, blocks>>
inlineVars == <<text, result>>
titleVars == <<content, extracted>>
capitalizeVars == <<title_in, title_out>>

extractVars == <<ex_summary, ex_overview, ex_k, ex_tried, ex_ret>>

processVars == <<tasks, extractor, store>>

retryVars ==
    <<max_retries, retry_delay, attempt, current_delay, last_error, api_calls, sleeps, reply>>

batchVars == <<input_file, urls, results>>

\* the variables of the functions modelled after the title inference
laterVars == <<capitalizeVars, extractVars, processVars, retryVars, batchVars>>

vars == <<mode, pc, converterVars, inlineVars, titleVars, laterVars>>

(***************************************************************************)
(* Bounds of the checked inputs.                                           *)
(***************************************************************************)
MaxLines == 2
MaxFenceLines == 4
MaxTokens == 5
MaxPieces == 2
MaxTitleTokens == 4
MaxRetries == 3
MaxFileLines == 2

(***************************************************************************)
(* Python string primitives.                                               *)
(***************************************************************************)
Min(S) == CHOOSE x \in S : \A y \in S : x <= y
Max(S) == CHOOSE x \in S : \A y \in S : x >= y

\* s[a:b] with 0 <= a, b; Python clamps both ends to len(s)
Slice(s, a, b) ==
    LET hi == IF b > Len(s) THEN Len(s) ELSE b
    IN  IF a >= hi THEN "" ELSE SubSeq(s, a + 1, hi)

\* s[k] for 0 <= k < len(s)
At(s, k) == SubSeq(s, k + 1, k + 1)

\* str.isspace() on one character, and \s of the re module
IsSpace(c) == c \in {" ", "\t", "\n", "\r"}

IsDigit(c) == c \in {"0", "1", "2", "3", "4", "5", "6", "7", "8", "9"}

\* s.strip()
Strip(s) ==
    LET keep == {k \in 0..(Len(s) - 1) : ~IsSpace(At(s, k))}
    IN  IF keep = {} THEN "" ELSE Slice(s, Min(keep), Max(keep) + 1)

\* the backtick, which a string literal cannot hold on its own, and the fence
Backtick == SubSeq("`'", 1, 1)
Fence == Backtick \o Backtick \o Backtick

\* s.startswith(p)
StartsWith(s, p) == Len(s) >= Len(p) /\ Slice(s, 0, Len(p)) = p

\* s.split('\n'): always at least one element
RECURSIVE SplitLines(_)
SplitLines(s) ==
    LET nl == {k \in 0..(Len(s) - 1) : At(s, k) = "\n"}
    IN  IF nl = {} THEN <<s>>
        ELSE <<Slice(s, 0, Min(nl))>> \o SplitLines(Slice(s, Min(nl) + 1, Len(s)))

\* '\n'.join(seq)
RECURSIVE JoinLines(_)
JoinLines(seq) ==
    IF seq = <<>> THEN ""
    ELSE IF Len(seq) = 1 THEN seq[1]
    ELSE seq[1] \o "\n" \o JoinLines(Tail(seq))

\* number of leading characters of s, from position k on, that satisfy the class
RECURSIVE RunOfSpace(_, _)
RunOfSpace(s, k) ==
    IF k < Len(s) /\ IsSpace(At(s, k)) THEN 1 + RunOfSpace(s, k + 1) ELSE 0

RECURSIVE RunOfDigit(_, _)
RunOfDigit(s, k) ==
    IF k < Len(s) /\ IsDigit(At(s, k)) THEN 1 + RunOfDigit(s, k + 1) ELSE 0

RECURSIVE RunOfHash(_, _)
RunOfHash(s, k) ==
    IF k < Len(s) /\ At(s, k) = "#" THEN 1 + RunOfHash(s, k + 1) ELSE 0

(***************************************************************************)
(* process_inline_formatting                                               *)
(***************************************************************************)
PlainSpan(c) == [content |-> c, bold |-> FALSE]
BoldSpan(c) == [content |-> c, bold |-> TRUE]

\* The match of (\*\*|__)(.*?)(\1) that starts exactly at p, or NoMatch:
\* the delimiter at p, then the shortest run without a newline that is
\* followed by the same delimiter.
NoMatch == [start |-> -1, end |-> -1, group2 |-> ""]

\* BoldMatchAt with the closing delimiter free to differ from the opening one
BoldMatchAt_AnyCloser(s, p) ==
    LET d == Slice(s, p, p + 2)
        closing == {q \in (p + 2)..(Len(s) - 2) :
                      /\ Slice(s, q, q + 2) \in {"**", "__"}
                      /\ \A k \in (p + 2)..(q - 1) : At(s, k) # "\n"}
    IN  IF d \in {"**", "__"} /\ closing # {}
        THEN [start |-> p, end |-> Min(closing) + 2, group2 |-> Slice(s, p + 2, Min(closing))]
        ELSE [start |-> -1, end |-> -1, group2 |-> ""]

BoldMatchAt(s, p) ==
    LET d == Slice(s, p, p + 2)
        closing == {q \in (p + 2)..(Len(s) - 2) :
                      /\ Slice(s, q, q + 2) = d
                      /\ \A k \in (p + 2)..(q - 1) : At(s, k) # "\n"}
    IN  IF d \in {"**", "__"} /\ closing # {}
        THEN [start |-> p, end |-> Min(closing) + 2, group2 |-> Slice(s, p + 2, Min(closing))]
        ELSE NoMatch

\* re.finditer(pattern, text): the leftmost match at or after pos, then on
\* from its end
RECURSIVE BoldMatches(_, _)
BoldMatches(s, pos) ==
    LET starts == {p \in pos..(Len(s) - 4) : BoldMatchAt(s, p) # NoMatch}
    IN  IF starts = {} THEN <<>>
        ELSE LET m == BoldMatchAt(s, Min(starts))
             IN  <<m>> \o BoldMatches(s, m.end)

\* InlineLoop with the text before a match taken from the start of the text
RECURSIVE InlineLoop_FromStart(_, _, _, _)
InlineLoop_FromStart(s, ms, k, last_end) ==
    IF k > Len(ms)
    THEN [result |-> <<>>, last_end |-> last_end]
    ELSE LET m == ms[k]
             before == IF m.start > last_end
                       THEN <<PlainSpan(Slice(s, 0, m.start))>> ELSE <<>>
             rest == InlineLoop_FromStart(s, ms, k + 1, m.end)
         IN  [result |-> before \o <<BoldSpan(m.group2)>> \o rest.result,
              last_end |-> rest.last_end]

\* the for loop over the matches, from the k-th on: what it appends to
\* result, and last_end when it ends
RECURSIVE InlineLoop(_, _, _, _)
InlineLoop(s, ms, k, last_end) ==
    IF k > Len(ms)
    THEN [result |-> <<>>, last_end |-> last_end]
    ELSE LET m == ms[k]
             before == IF m.start > last_end
                       THEN <<PlainSpan(Slice(s, last_end, m.start))>> ELSE <<>>
             rest == InlineLoop(s, ms, k + 1, m.end)
         IN  [result |-> before \o <<BoldSpan(m.group2)>> \o rest.result,
              last_end |-> rest.last_end]

\* process_inline_formatting without the text after the last match
process_inline_formatting_NoTail(s) ==
    LET loop == InlineLoop(s, BoldMatches(s, 0), 1, 0)
    IN  IF loop.result = <<>> THEN <<PlainSpan(s)>> ELSE loop.result

\* process_inline_formatting without the fallback for an empty result
process_inline_formatting_NoFallback(s) ==
    LET loop == InlineLoop(s, BoldMatches(s, 0), 1, 0)
        tail == IF loop.last_end < Len(s)
                THEN <<PlainSpan(Slice(s, loop.last_end, Len(s)))>> ELSE <<>>
    IN  loop.result \o tail

process_inline_formatting(s) ==
    LET loop == InlineLoop(s, BoldMatches(s, 0), 1, 0)
        tail == IF loop.last_end < Len(s)
                THEN <<PlainSpan(Slice(s, loop.last_end, Len(s)))>> ELSE <<>>
        spans == loop.result \o tail
    IN  IF spans = <<>> THEN <<PlainSpan(s)>> ELSE spans

(***************************************************************************)
(* convert_markdown_to_notion_blocks: one iteration of the scan loop.      *)
(***************************************************************************)
\* str(level) for a one-digit level
DigitStr(n) == SubSeq("0123456789", n + 1, n + 1)

\* HeaderMatch with up to six hashes taken as a heading
HeaderMatch_SixLevels(line) ==
    LET h == RunOfHash(line, 0)
        w == RunOfSpace(line, h)
        rest == Slice(line, h + w, Len(line))
    IN  IF h \in 1..6 /\ w >= 1 /\ rest # ""
        THEN [level |-> h, content |-> rest]
        ELSE [level |-> 0, content |-> ""]

\* re.match(r'^(#{1,3})\s+(.+)$', line) on a stripped line of one text line:
\* level and content, level 0 for no match
HeaderMatch(line) ==
    LET h == RunOfHash(line, 0)
        w == RunOfSpace(line, h)
        rest == Slice(line, h + w, Len(line))
    IN  IF h \in 1..3 /\ w >= 1 /\ rest # ""
        THEN [level |-> h, content |-> rest]
        ELSE [level |-> 0, content |-> ""]

\* re.match(r'^(\d+)\.\s+(.+)$', line)
NumberedMatch(line) ==
    LET d == RunOfDigit(line, 0)
        w == RunOfSpace(line, d + 1)
        rest == Slice(line, d + 1 + w, Len(line))
    IN  IF d >= 1 /\ Slice(line, d, d + 1) = "." /\ w >= 1 /\ rest # ""
        THEN [ok |-> TRUE, content |-> rest]
        ELSE [ok |-> FALSE, content |-> ""]

\* IsBulleted without the space after the marker
IsBulleted_NoSpace(line) == StartsWith(line, "-") \/ StartsWith(line, "*")

IsBulleted(line) == StartsWith(line, "- ") \/ StartsWith(line, "* ")

IsQuote(line) == StartsWith(line, ">")

IsFence(line) == StartsWith(line, Fence)

IsDivider(line) == line = "---" \/ line = "___" \/ line = "***"

TextBlock(kind, spans) == [type |-> kind, rich_text |-> spans]

CodeBlock(code, lang) ==
    [type |-> "code", rich_text |-> <<PlainSpan(code)>>,
     language |-> IF lang # "" THEN lang ELSE "plain text"]

DividerBlock == [type |-> "divider"]

\* SkipBlank that leaves the cursor where it is
SkipBlank_NoAdvance(k) == [i |-> k, emit |-> <<>>]

\* Each branch of the loop body gives the new cursor and the blocks appended.
SkipBlank(k) == [i |-> k + 1, emit |-> <<>>]

HeaderBranch(line, k) ==
    [i |-> k + 1,
     emit |-> <<TextBlock("heading_" \o DigitStr(HeaderMatch(line).level),
                          process_inline_formatting(HeaderMatch(line).content))>>]

BulletedBranch(line, k) ==
    [i |-> k + 1,
     emit |-> <<TextBlock("bulleted_list_item",
                          process_inline_formatting(Slice(line, 2, Len(line))))>>]

NumberedBranch(line, k) ==
    [i |-> k + 1,
     emit |-> <<TextBlock("numbered_list_item",
                          process_inline_formatting(NumberedMatch(line).content))>>]

QuoteBranch(line, k) ==
    [i |-> k + 1,
     emit |-> <<TextBlock("quote",
                          process_inline_formatting(Strip(Slice(line, 1, Len(line)))))>>]

\* FenceStop that tests the untrimmed line for the closing fence
RECURSIVE FenceStop_Untrimmed(_, _)
FenceStop_Untrimmed(ls, j) ==
    IF j < Len(ls) /\ ~StartsWith(ls[j + 1], Fence)
    THEN FenceStop_Untrimmed(ls, j + 1)
    ELSE j

\* the inner while of the code branch: the cursor where it stops, from j on
RECURSIVE FenceStop(_, _)
FenceStop(ls, j) ==
    IF j < Len(ls) /\ ~StartsWith(Strip(ls[j + 1]), Fence)
    THEN FenceStop(ls, j + 1)
    ELSE j

\* FenceBranch that leaves the cursor on the closing fence
FenceBranch_KeepClosing(ls, k) ==
    LET line == Strip(ls[k + 1])
        stop == FenceStop(ls, k + 1)
        code_content == SubSeq(ls, k + 2, stop)
    IN  [i |-> stop,
         emit |-> <<CodeBlock(JoinLines(code_content), Strip(Slice(line, 3, Len(line))))>>]

\* the code branch: language, accumulated lines, closing fence skipped
FenceBranch(ls, k) ==
    LET line == Strip(ls[k + 1])
        stop == FenceStop(ls, k + 1)
        code_content == SubSeq(ls, k + 2, stop)
    IN  [i |-> IF stop < Len(ls) THEN stop + 1 ELSE stop,
         emit |-> <<CodeBlock(JoinLines(code_content), Strip(Slice(line, 3, Len(line))))>>]

DividerBranch(k) == [i |-> k + 1, emit |-> <<DividerBlock>>]

ParagraphBranch(line, k) ==
    [i |-> k + 1, emit |-> <<TextBlock("paragraph", process_inline_formatting(line))>>]

\* one pass through the body of the while loop over i
ScanIteration(ls, k) ==
    LET line == Strip(ls[k + 1])
    IN  IF line = "" THEN SkipBlank(k)
        ELSE IF HeaderMatch(line).level > 0 THEN HeaderBranch(line, k)
        ELSE IF IsBulleted(line) THEN BulletedBranch(line, k)
        ELSE IF NumberedMatch(line).ok THEN NumberedBranch(line, k)
        ELSE IF IsQuote(line) THEN QuoteBranch(line, k)
        ELSE IF IsFence(line) THEN FenceBranch(ls, k)
        ELSE IF IsDivider(line) THEN DividerBranch(k)
        ELSE ParagraphBranch(line, k)

\* the while loop of lines 14-123, from line k on
RECURSIVE ConvertLoop(_, _)
ConvertLoop(ls, k) ==
    IF k >= Len(ls) THEN <<>>
    ELSE ScanIteration(ls, k).emit \o ConvertLoop(ls, ScanIteration(ls, k).i)

\* the whole function, as add_to_database calls it
convert_markdown_to_notion_blocks(md) == ConvertLoop(SplitLines(md), 0)

(***************************************************************************)
(* More string primitives, for the titles.                                 *)
(***************************************************************************)
UpperLetters == "ABCDEFGHIJKLMNOPQRSTUVWXYZ"
LowerLetters == "abcdefghijklmnopqrstuvwxyz"

UpperSet == {At(UpperLetters, k) : k \in 0..25}
LowerSet == {At(LowerLetters, k) : k \in 0..25}
ToLower == [c \in UpperSet |-> At(LowerLetters, CHOOSE k \in 0..25 : At(UpperLetters, k) = c)]
ToUpper == [c \in LowerSet |-> At(UpperLetters, CHOOSE k \in 0..25 : At(LowerLetters, k) = c)]

\* str.isupper() on one character
IsUpper(c) == c \in UpperSet

LowerChar(c) == IF c \in UpperSet THEN ToLower[c] ELSE c

UpperChar(c) == IF c \in LowerSet THEN ToUpper[c] ELSE c

\* s.lower()
RECURSIVE Lower(_)
Lower(s) == IF s = "" THEN "" ELSE LowerChar(At(s, 0)) \o Lower(Slice(s, 1, Len(s)))

\* s.capitalize()
Capitalize(s) == IF s = "" THEN "" ELSE UpperChar(At(s, 0)) \o Lower(Slice(s, 1, Len(s)))

\* s.endswith(p)
EndsWith(s, p) == Len(s) >= Len(p) /\ Slice(s, Len(s) - Len(p), Len(s)) = p

\* s.rstrip('.')
RECURSIVE RStripDots(_)
RStripDots(s) == IF EndsWith(s, ".") THEN RStripDots(Slice(s, 0, Len(s) - 1)) ELSE s

\* s.split(): the maximal runs without whitespace
RECURSIVE SplitWords(_)
SplitWords(s) ==
    LET t == Slice(s, RunOfSpace(s, 0), Len(s))
        ws == {k \in 0..(Len(t) - 1) : IsSpace(At(t, k))}
    IN  IF t = "" THEN <<>>
        ELSE IF ws = {} THEN <<t>>
        ELSE <<Slice(t, 0, Min(ws))>> \o SplitWords(Slice(t, Min(ws), Len(t)))

\* ' '.join(seq)
RECURSIVE JoinWords(_)
JoinWords(seq) ==
    IF seq = <<>> THEN ""
    ELSE IF Len(seq) = 1 THEN seq[1]
    ELSE seq[1] \o " " \o JoinWords(Tail(seq))

\* string.punctuation, one character
PunctuationSet == {At("!\"#$%&'()*+,-./:;<=>?@[\\]^_{|}~", k) : k \in 0..30} \cup {Backtick}

IsPunctuation(c) == c \in PunctuationSet

\* An optional value: <<>> is None, <<v>> is the value v.
None == <<>>
Some(v) == <<v>>

(***************************************************************************)
(* _capitalize_title                                                       *)
(***************************************************************************)
lowercase_words ==
    {"a", "an", "the", "and", "but", "or", "for", "nor", "on", "at",
     "to", "from", "by", "in", "of", "with", "as"}

\* CapitalizeWords that leaves the last word to the rule of the interior words
CapitalizeWords_FirstOnly(words) ==
    [k \in 1..Len(words) |->
        IF k = 1 THEN Capitalize(words[k])
        ELSE IF Lower(words[k]) \in lowercase_words /\ ~IsPunctuation(At(words[k], 0))
        THEN Lower(words[k])
        ELSE Capitalize(words[k])]

CapitalizeWords(words) ==
    [k \in 1..Len(words) |->
        IF k = 1 \/ k = Len(words) THEN Capitalize(words[k])
        ELSE IF Lower(words[k]) \in lowercase_words /\ ~IsPunctuation(At(words[k], 0))
        THEN Lower(words[k])
        ELSE Capitalize(words[k])]

\* capitalize_title that appends the ellipsis without stripping the periods
capitalize_title_AppendOnly(title) ==
    IF title = "" THEN title
    ELSE IF SplitWords(title) = <<>> THEN title
    ELSE LET capitalized_title == JoinWords(CapitalizeWords(SplitWords(title)))
         IN  IF EndsWith(title, "...")
             THEN capitalized_title \o "..."
             ELSE capitalized_title

capitalize_title(title) ==
    IF title = "" THEN title
    ELSE IF SplitWords(title) = <<>> THEN title
    ELSE LET capitalized_title == JoinWords(CapitalizeWords(SplitWords(title)))
         IN  IF EndsWith(title, "...")
             THEN RStripDots(capitalized_title) \o "..."
             ELSE capitalized_title

(***************************************************************************)
(* _extract_title_from_summary                                             *)
(***************************************************************************)
IsQuoteChar(c) == c = "\"" \/ c = "'"

\* The labeled patterns, in list order.  Each is: an optional anchor at the
\* start of the text, a literal, an optional quote, the lazy group (.+?), an
\* optional quote, a literal; literals are written in lower case because the
\* search ignores case.
Pattern(anchored, prefix, quoted_before, quoted_after, suffix) ==
    [anchored |-> anchored, prefix |-> prefix, q1 |-> quoted_before,
     q2 |-> quoted_after, suffix |-> suffix]

patterns ==
    << Pattern(FALSE, "summary of ", TRUE, TRUE, ""),
       Pattern(FALSE, "# ", FALSE, FALSE, " summary"),
       Pattern(FALSE, "# summary of ", TRUE, TRUE, ""),
       Pattern(TRUE, "", FALSE, FALSE, " video summary"),
       Pattern(FALSE, "", TRUE, TRUE, " video"),
       Pattern(FALSE, "overview of ", TRUE, TRUE, ""),
       Pattern(FALSE, "overview of the ", TRUE, TRUE, ""),
       Pattern(FALSE, "from ", TRUE, TRUE, ""),
       Pattern(FALSE, "titled ", TRUE, TRUE, ""),
       Pattern(FALSE, "called ", TRUE, TRUE, "") >>

\* where the group of pat starts when the match starts at st
GroupStart(pat, st) == st + Len(pat.prefix) + (IF pat.q1 THEN 1 ELSE 0)

\* the ends the group can have when the match of pat starts at st: the text
\* before the group fits, the group is at least one character and holds no
\* newline, the text after it fits
GroupEnds(pat, s, st) ==
    LET g == GroupStart(pat, st)
        q == IF pat.q2 THEN 1 ELSE 0
        newlines == {k \in g..(Len(s) - 1) : At(s, k) = "\n"}
        line_end == IF newlines = {} THEN Len(s) ELSE Min(newlines)
    IN  IF /\ Lower(Slice(s, st, st + Len(pat.prefix))) = pat.prefix
           /\ pat.q1 => IsQuoteChar(Slice(s, g - 1, g))
        THEN {e \in (g + 1)..line_end :
                /\ pat.q2 => IsQuoteChar(Slice(s, e, e + 1))
                /\ Lower(Slice(s, e + q, e + q + Len(pat.suffix))) = pat.suffix}
        ELSE {}

\* re.search(pattern, s, re.IGNORECASE).group(1): the leftmost match, its
\* group the shortest; None when nothing matches
SearchGroup(pat, s) ==
    LET starts == {st \in (IF pat.anchored THEN {0} ELSE 0..Len(s)) : GroupEnds(pat, s, st) # {}}
        st0 == Min(starts)
    IN  IF starts = {} THEN None
        ELSE Some(Slice(s, GroupStart(pat, st0), Min(GroupEnds(pat, s, st0))))

\* one turn of the for loop over patterns: the k-th pattern searched in s,
\* and the title returned when it matches
TryPattern(s, k) ==
    LET match == SearchGroup(patterns[k], s)
    IN  IF match # None
        THEN [returned |-> TRUE, value |-> Some(capitalize_title(Strip(match[1])))]
        ELSE [returned |-> FALSE, value |-> None]

\* the for loop over patterns: the group of the first pattern, from the k-th
\* on, that matches
RECURSIVE FirstPatternGroup(_, _)
FirstPatternGroup(s, k) ==
    IF k > Len(patterns) THEN None
    ELSE LET match == SearchGroup(patterns[k], s)
         IN  IF match # None THEN match ELSE FirstPatternGroup(s, k + 1)

\* re.search(r'## Overview\s+(.+?)(?=##|\Z)', summary, re.DOTALL).group(1):
\* at an occurrence of the heading that ends at a, the whitespace run after
\* it, then the group from the first character after the run (from the last
\* whitespace character when the run reaches the end of the text) up to the
\* next ## or the end
OverviewGroupAt(s, a) ==
    LET w == RunOfSpace(s, a)
        g == IF a + w < Len(s) THEN a + w ELSE a + w - 1
        stops == {e \in (g + 1)..Len(s) : e = Len(s) \/ Slice(s, e, e + 2) = "##"}
    IN  IF w >= 1 /\ g >= a + 1 THEN Some(Slice(s, g, Min(stops))) ELSE None

OverviewMatch(s) ==
    LET at == {st \in 0..Len(s) :
                 /\ Slice(s, st, st + 11) = "## Overview"
                 /\ OverviewGroupAt(s, st + 11) # None}
    IN  IF at = {} THEN None ELSE OverviewGroupAt(s, Min(at) + 11)

\* re.split(r'(?<=[.!?])\s+', s)[0]
FirstSentence(s) ==
    LET cuts == {k \in 1..(Len(s) - 1) :
                   IsSpace(At(s, k)) /\ At(s, k - 1) \in {".", "!", "?"}}
    IN  IF cuts = {} THEN s ELSE Slice(s, 0, Min(cuts))

verbs_video ==
    <<"discusses", "explores", "presents", "is about", "covers", "focuses on",
      "examines", "talks about", "provides", "offers">>

verbs_speaker ==
    <<"discusses", "explores", "presents", "talks about", "covers", "focuses on",
      "examines", "provides", "offers">>

\* re.sub('^' + head + '(v1|v2|...)', '', s, flags=re.IGNORECASE).strip()
RemoveLeadIn(s, head, verbs) ==
    LET fits == {k \in 1..Len(verbs) :
                   Lower(Slice(s, 0, Len(head) + Len(verbs[k]))) = head \o verbs[k]}
    IN  IF fits = {} THEN Strip(s)
        ELSE Strip(Slice(s, Len(head) + Len(verbs[Min(fits)]), Len(s)))

\* re.sub(r'^In this video,?\s+', '', s, flags=re.IGNORECASE).strip()
RemoveInThisVideo(s) ==
    LET c == IF Slice(s, 13, 14) = "," THEN 14 ELSE 13
    IN  IF Lower(Slice(s, 0, 13)) = "in this video" /\ RunOfSpace(s, c) >= 1
        THEN Strip(Slice(s, c + RunOfSpace(s, c), Len(s)))
        ELSE Strip(s)

\* the for loop over phrases_to_remove
CleanSentence(first_sentence) ==
    RemoveLeadIn(
        RemoveLeadIn(
            RemoveInThisVideo(RemoveLeadIn(first_sentence, "this video ", verbs_video)),
            "the video ", verbs_video),
        "the speaker ", verbs_speaker)

\* the first-heading fallback without the test for 'overview'
HeadingFallback_AnyHeading(summary) ==
    LET at == {st \in 0..(Len(summary) - 3) : Slice(summary, st, st + 3) = "## "}
        g == Min(at) + 3
        nl == {e \in g..(Len(summary) - 1) : At(summary, e) = "\n"}
        group1 == Slice(summary, g, IF nl = {} THEN Len(summary) ELSE Min(nl))
    IN  IF at # {}
        THEN Some(capitalize_title(Strip(group1)))
        ELSE None

\* TitleFromFirstSentence that keeps five words, the low end of the comment
\* of line 153, instead of seven
TitleFromFirstSentence_FiveWords(overview_text) ==
    LET first_sentence == Strip(FirstSentence(overview_text))
        quoted_match == SearchGroup(Pattern(FALSE, "", TRUE, TRUE, ""), first_sentence)
        cleaned_sentence == CleanSentence(first_sentence)
        words == SplitWords(cleaned_sentence)
    IN  IF quoted_match # None THEN capitalize_title(Strip(quoted_match[1]))
        ELSE IF Len(words) > 3
        THEN capitalize_title(
                 JoinWords(SubSeq(words, 1, IF Len(words) < 5 THEN Len(words) ELSE 5))
                 \o (IF Len(words) <= 5 THEN "" ELSE "..."))
        ELSE capitalize_title(cleaned_sentence)

\* lines 130-158: the title from the first sentence of the overview
TitleFromFirstSentence(overview_text) ==
    LET first_sentence == Strip(FirstSentence(overview_text))
        quoted_match == SearchGroup(Pattern(FALSE, "", TRUE, TRUE, ""), first_sentence)
        cleaned_sentence == CleanSentence(first_sentence)
        words == SplitWords(cleaned_sentence)
    IN  IF quoted_match # None THEN capitalize_title(Strip(quoted_match[1]))
        ELSE IF Len(words) > 3
        THEN capitalize_title(
                 JoinWords(SubSeq(words, 1, IF Len(words) < 7 THEN Len(words) ELSE 7))
                 \o (IF Len(words) <= 7 THEN "" ELSE "..."))
        ELSE capitalize_title(cleaned_sentence)

\* lines 167-172: the first level-2 heading of the summary
HeadingFallback(summary) ==
    LET at == {st \in 0..(Len(summary) - 3) : Slice(summary, st, st + 3) = "## "}
        g == Min(at) + 3
        nl == {e \in g..(Len(summary) - 1) : At(summary, e) = "\n"}
        group1 == Slice(summary, g, IF nl = {} THEN Len(summary) ELSE Min(nl))
    IN  IF at # {} /\ Lower(group1) # "overview"
        THEN Some(capitalize_title(Strip(group1)))
        ELSE None

extract_title_from_summary(summary) ==
    LET overview_match == OverviewMatch(summary)
    IN  IF overview_match # None
        THEN LET overview_text == Strip(overview_match[1])
                 match == FirstPatternGroup(overview_text, 1)
             IN  IF match # None
                 THEN Some(capitalize_title(Strip(match[1])))
                 ELSE Some(TitleFromFirstSentence(overview_text))
        ELSE LET match == FirstPatternGroup(summary, 1)
             IN  IF match # None
                 THEN Some(capitalize_title(Strip(match[1])))
                 ELSE HeadingFallback(summary)

(***************************************************************************)
(* process, lines 209-221: the title of the content record.                *)
(***************************************************************************)
\* get_video_info when the metadata lookup raises: the title of the basic info
FallbackTitle(video_id) == "YouTube Summary - " \o video_id

\* IsGenericTitle that compares with the bare prefix instead of testing for it
IsGenericTitle_Equals(youtube_title) == youtube_title = "YouTube Summary - "

IsGenericTitle(youtube_title) == StartsWith(youtube_title, "YouTube Summary - ")

\* HasUpperAfterFirst that looks at the first character too
HasUpperAfterFirst_FromStart(youtube_title) ==
    \E k \in 0..(Len(youtube_title) - 1) : IsUpper(At(youtube_title, k))

HasUpperAfterFirst(youtube_title) ==
    \E k \in 1..(Len(youtube_title) - 1) : IsUpper(At(youtube_title, k))

\* the summary is consulted only in the elif
ExtractionAttempted(c) == ~(c.title # "" /\ ~IsGenericTitle(c.title))

\* a value is truthy when it is neither None nor the empty string
Truthy(opt) == opt # None /\ opt[1] # ""

\* InferTitle that assigns whatever extraction returned
InferTitle_AssignAlways(c) ==
    IF c.title # "" /\ ~IsGenericTitle(c.title)
    THEN IF ~HasUpperAfterFirst(c.title)
         THEN [c EXCEPT !.title = capitalize_title(c.title)]
         ELSE c
    ELSE LET extracted_title == extract_title_from_summary(c.summary)
         IN  [c EXCEPT !.title = IF extracted_title = None THEN "" ELSE extracted_title[1]]

InferTitle(c) ==
    IF c.title # "" /\ ~IsGenericTitle(c.title)
    THEN IF ~HasUpperAfterFirst(c.title)
         THEN [c EXCEPT !.title = capitalize_title(c.title)]
         ELSE c
    ELSE LET extracted_title == extract_title_from_summary(c.summary)
         IN  IF Truthy(extracted_title)
             THEN [c EXCEPT !.title = extracted_title[1]]
             ELSE c

(***************************************************************************)
(* process and the collaborators it calls (src/src/pipeline.py lines       *)
(* 174-237, src/src/extractors/youtube.py, src/src/summarizers/            *)
(* summarizer.py, src/src/notion/manager.py).                              *)
(***************************************************************************)
\* sub in s
Contains(s, sub) == \E k \in 0..(Len(s) - Len(sub)) : Slice(s, k, k + Len(sub)) = sub

\* _validate_url: TRUE when it raises nothing
ValidUrl(url) == url # "" /\ (Contains(url, "youtube.com") \/ Contains(url, "youtu.be"))

IdChars ==
    {At("0123456789ABCDEFGHIJKLMNOPQRSTUVWXYZabcdefghijklmnopqrstuvwxyz_-", k) : k \in 0..63}

\* the eleven characters [0-9A-Za-z_-]{11} from place k on
IsIdAt(url, k) == k + 11 <= Len(url) /\ \A j \in k..(k + 10) : At(url, j) \in IdChars

\* extract_video_id: the group of the leftmost match of (?:v=|\/)([...]{11}).*;
\* the patterns for embed/ and shorts/ match only where this one does.  None
\* stands for the ValueError of line 36.
extract_video_id(url) ==
    LET starts == {k \in 0..(Len(url) - 1) :
                      \/ Slice(url, k, k + 2) = "v=" /\ IsIdAt(url, k + 2)
                      \/ At(url, k) = "/" /\ IsIdAt(url, k + 1)}
        st == Min(starts)
    IN  IF starts = {} THEN None
        ELSE IF At(url, st) = "/" THEN Some(Slice(url, st + 1, st + 12))
        ELSE Some(Slice(url, st + 2, st + 13))

\* what the platform and the model answer: the title yt-dlp reports for a
\* url, the captions of a video id, the markdown the model writes for a
\* transcript (stripped, as line 119 of the summarizer returns it)
PlatformTitle(url) == "talk " \o extract_video_id(url)[1]

TranscriptOf(video_id) == "transcript of " \o video_id

SummaryOf(transcript) ==
    "## Overview\nThis video is titled '" \o transcript \o "'.\n## Summary\n- **done**"

\* the content record; a key that is absent is the empty string
EmptyContent ==
    [id |-> "", title |-> "", url |-> "", transcript |-> "", summary |-> "",
     notion_page_id |-> "", notion_url |-> ""]

\* read_urls_from_file, line 94: the stripped lines that are not blank
RECURSIVE read_urls_from_file(_)
read_urls_from_file(file) ==
    IF file = <<>> THEN <<>>
    ELSE IF Strip(file[1]) # "" THEN <<Strip(file[1])>> \o read_urls_from_file(Tail(file))
    ELSE read_urls_from_file(Tail(file))

\* a call of process on the pipeline object p, about to start
NewTask(url, p) ==
    [url |-> url, pipeline |-> p, pc |-> "validate", content |-> EmptyContent,
     log |-> <<>>, reports |-> <<>>, outcome |-> "running", failed |-> "", error |-> ""]

\* the call has entered a stage
Entered(task, stage) == [task EXCEPT !.log = Append(@, stage)]

\* _report_progress, lines 46-50: the percentage goes to the log and the callback
Reported(task, percentage) == [task EXCEPT !.reports = Append(@, percentage)]

\* an exception leaves process through the except of lines 235-237
Raised(task, stage, message) ==
    [task EXCEPT !.pc = "done", !.outcome = "raised", !.failed = stage, !.error = message]

\* add_to_database, lines 120-137: the heading put before the summary blocks
header_block == TextBlock("heading_1", <<PlainSpan("Video Summary")>>)

\* what the document store does for one call of add_to_database: the schema
\* lookup answers or raises, the page creation answers or raises
NotionOutcomes == [schema : {"ok", "error"}, create : {"ok", "error"}]

\* get_database_schema and _create_page_properties, lines 23-106: the title
\* and the url property of the page; get_database_schema catches the error
\* of the lookup and hands back an empty schema, which gives no property
create_page_properties(c, notion) ==
    IF notion.schema = "ok" THEN [title |-> c.title, url |-> c.url]
    ELSE [title |-> "", url |-> ""]

\* what add_to_database and get_database_schema print
PrintedError(notion) ==
    IF notion.create = "error" THEN "Error adding to Notion database"
    ELSE IF notion.schema = "error" THEN "Error retrieving database schema"
    ELSE ""

\* the page pages.create is asked for
NewPage(c, notion) ==
    [title |-> create_page_properties(c, notion).title,
     url |-> create_page_properties(c, notion).url,
     children |-> <<header_block>> \o convert_markdown_to_notion_blocks(c.summary)]

\* add_to_database that lets the error of the page creation out
add_to_database_NoCatch(c, notion, pages) ==
    IF c.summary = ""
    THEN [raised |-> TRUE, error |-> "No summary available to add to Notion.",
          content |-> c, pages |-> pages]
    ELSE IF notion.create = "ok"
    THEN [raised |-> FALSE, error |-> PrintedError(notion),
          content |-> [c EXCEPT !.notion_page_id = "page " \o DigitStr(Len(pages) + 1),
                                !.notion_url = "https://notion.so/page" \o DigitStr(Len(pages) + 1)],
          pages |-> Append(pages, NewPage(c, notion))]
    ELSE [raised |-> TRUE, error |-> PrintedError(notion), content |-> c, pages |-> pages]

\* add_to_database, lines 108-153, on the record c with the pages stored so
\* far: whether it raised, the message raised or printed, the record handed
\* back and the pages stored afterwards
add_to_database(c, notion, pages) ==
    IF c.summary = ""
    THEN [raised |-> TRUE, error |-> "No summary available to add to Notion.",
          content |-> c, pages |-> pages]
    ELSE IF notion.create = "ok"
    THEN [raised |-> FALSE, error |-> PrintedError(notion),
          content |-> [c EXCEPT !.notion_page_id = "page " \o DigitStr(Len(pages) + 1),
                                !.notion_url = "https://notion.so/page" \o DigitStr(Len(pages) + 1)],
          pages |-> Append(pages, NewPage(c, notion))]
    ELSE [raised |-> FALSE, error |-> PrintedError(notion), content |-> c, pages |-> pages]

(***************************************************************************)
(* Inputs.                                                                 *)
(***************************************************************************)
\* lines that exercise every rule of the scan, and its near misses
RuleLines ==
    {"", "  ", "# a", "## **a** b", "### a", "#### a", "#a", "- a", "* a", "-a",
     "1. a", "1.a", "> a", ">", "---", "___", "***", " --- ", "----", "a", "**a**",
     Fence \o "py"}

\* lines for the code fence: opening, closing, and content worth keeping verbatim
FenceLines == {Fence, Fence \o " py", " " \o Fence \o " ", "", "  a ", "# a"}

\* pieces the inline texts are made of
InlineTokens == {"**", "__", "*", "_", "a", " b", "\n"}

RECURSIVE SeqsUpTo(_, _)
SeqsUpTo(S, n) ==
    IF n = 0 THEN {<<>>}
    ELSE LET shorter == SeqsUpTo(S, n - 1)
         IN  shorter \cup {Append(q, x) : q \in {r \in shorter : Len(r) = n - 1}, x \in S}

RECURSIVE Concat(_)
Concat(seq) == IF seq = <<>> THEN "" ELSE seq[1] \o Concat(Tail(seq))

ConvertInputs ==
    {JoinLines(q) : q \in SeqsUpTo(RuleLines, MaxLines)}
    \cup {JoinLines(q) : q \in SeqsUpTo(FenceLines, MaxFenceLines)}

InlineInputs == {Concat(q) : q \in SeqsUpTo(InlineTokens, MaxTokens)}

\* platform titles: empty, the placeholder of a failed metadata lookup, and
\* titles with and without an uppercase letter after the first
VideoIds == {"dQw4w9WgXcQ", "abc123XYZ90"}

PlatformTitles ==
    {FallbackTitle(id) : id \in VideoIds}
    \cup {"", "how to bake bread", "Hello world", "My Video", "a",
          "  ", "the end of it...", "iPhone review", "Q&A on the AND gate"}

\* sentences the summaries are made of
SummaryPieces ==
    {"## Overview\n", "## overview\n", "## Key Points\n", "## \n", "### Sub\n", "\n",
     "This video discusses the history of \"Rome\". ",
     "From \"the x\", a Summary of 'my talk'. ",
     "In this video, the speaker explores one two three four five six seven eight. ",
     "The video covers cats and dogs too. ",
     "# Cats and dogs Summary\n",
     "plain text"}

\* pieces the titles given to _capitalize_title are made of
TitleTokens == {"how ", "TO ", "the", "'a ", "bake", " ", ".", ".."}

CapitalizeInputs ==
    {Concat(q) : q \in SeqsUpTo(TitleTokens, MaxTitleTokens)}
    \cup PlatformTitles \cup {"how to bake bread"}

\* urls given to process: empty, of another site, of the platform without
\* a video id, and with one in the spellings extract_video_id knows
Urls ==
    {"", "https://example.com/v", "https://youtube.com/",
     "https://youtu.be/dQw4w9WgXcQ", "https://www.youtube.com/watch?v=abc123XYZ90",
     "https://www.youtube.com/shorts/a_b-c_d-e_f",
     "https://www.youtube.com/embed/dQw4w9WgXcQ"}

\* urls and records that reach add_to_database
PublishUrls == {"https://youtu.be/dQw4w9WgXcQ", "https://www.youtube.com/watch?v=abc123XYZ90"}

PublishContents ==
    {[EmptyContent EXCEPT !.title = tt, !.url = url, !.summary = sm] :
        tt \in {"", "My Video", "talk"}, url \in PublishUrls,
        sm \in {"", "## Overview\nA talk.", "plain text"}}

\* records that reach the title decision of process: the video of one url
\* with its transcript, under a title that is missing, a placeholder, all
\* lower case or already cased, and a summary from which a title, an empty
\* title or no title is extracted
InferContents ==
    {[EmptyContent EXCEPT !.id = "dQw4w9WgXcQ", !.url = "https://youtu.be/dQw4w9WgXcQ",
                          !.transcript = TranscriptOf("dQw4w9WgXcQ"),
                          !.title = tt, !.summary = sm] :
        tt \in {"", FallbackTitle("dQw4w9WgXcQ"), "how to bake bread", "the end of it...",
                "My Video", "iPhone review"},
        sm \in {"plain text", "# Baking\ntext", "## \nplain text", "## Overview\nA talk.",
                SummaryOf(TranscriptOf("dQw4w9WgXcQ"))}}

\* lines of an input file: blank, a url with spaces around it, a url of the
\* platform without a video id, a line that is no url of the platform
FileLines == {"", "  ", " https://youtu.be/dQw4w9WgXcQ ", "https://youtube.com/", "not a url"}

InputFiles == SeqsUpTo(FileLines, MaxFileLines)

\* arguments of summarize_with_openai: the default is 3 retries, 2 seconds
RetryCounts == 0..MaxRetries

RetryDelays == {1, 2}

\* what one call of the completion API can do: answer, raise one of the four
\* errors of line 121, raise anything else
TransientErrors == {"RateLimitError", "APIError", "APIConnectionError", "Timeout"}

ApiOutcomes == {"response"} \cup TransientErrors \cup {"Exception"}

\* the text of the answer, response.choices[0].message.content
Completion == " ## Overview\nA talk.\n"

\* texts a summary can be
SummaryTexts == {Concat(q) : q \in SeqsUpTo(SummaryPieces, MaxPieces)}

\* the summary process holds after summarization: the response of the model
\* with surrounding whitespace stripped, and not empty
Summaries == {Strip(s) : s \in SummaryTexts} \ {""}

(***************************************************************************)
(* The state machine.                                                      *)
(***************************************************************************)
IdleConverter == markdown_text = "" /\ lines = <<>> /\ i = 0 /\ blocks = <<>>

IdleInline == text = "" /\ result = <<>>

IdleTitle == content = [title |-> "", summary |-> ""] /\ extracted = [called |-> FALSE, value |-> None]

IdleCapitalize == title_in = "" /\ title_out = ""

IdleExtract ==
    ex_summary = "" /\ ex_overview = <<>> /\ ex_k = 0 /\ ex_tried = <<>> /\ ex_ret = <<>>

IdleProcess == tasks = <<>> /\ extractor = <<>> /\ store = <<>>

NoReply == [kind |-> "none", value |-> ""]

IdleRetry ==
    /\ max_retries = 0 /\ retry_delay = 0 /\ attempt = 0 /\ current_delay = 0
    /\ last_error = None /\ api_calls = <<>> /\ sleeps = <<>> /\ reply = NoReply

NoResults == [success |-> <<>>, failures |-> <<>>]

IdleBatch == input_file = <<>> /\ urls = <<>> /\ results = NoResults

IdleLater == IdleCapitalize /\ IdleExtract /\ IdleProcess /\ IdleRetry /\ IdleBatch

InitConvert ==
    /\ mode = "convert" /\ pc = "split"
    /\ markdown_text \in ConvertInputs
    /\ lines = <<>> /\ i = 0 /\ blocks = <<>>
    /\ IdleInline /\ IdleTitle /\ IdleLater

InitInline ==
    /\ mode = "inline" /\ pc = "call"
    /\ text \in InlineInputs
    /\ result = <<>>
    /\ IdleConverter /\ IdleTitle /\ IdleLater

\* lines 10-12
SplitStep ==
    /\ mode = "convert" /\ pc = "split"
    /\ lines' = SplitLines(markdown_text)
    /\ i' = 0
    /\ blocks' = <<>>
    /\ pc' = "scan"
    /\ UNCHANGED <<mode, markdown_text, text, result, content, extracted, laterVars>>

\* lines 14-123
ScanStep ==
    /\ mode = "convert" /\ pc = "scan"
    /\ i < Len(lines)
    /\ i' = ScanIteration(lines, i).i
    /\ blocks' = blocks \o ScanIteration(lines, i).emit
    /\ UNCHANGED <<mode, pc, markdown_text, lines, text, result, content, extracted, laterVars>>

\* line 125
ReturnBlocks ==
    /\ mode = "convert" /\ pc = "scan"
    /\ ~(i < Len(lines))
    /\ pc' = "done"
    /\ UNCHANGED <<mode, markdown_text, lines, i, blocks, text, result, content, extracted, laterVars>>

\* lines 128-169
InlineCall ==
    /\ mode = "inline" /\ pc = "call"
    /\ result' = process_inline_formatting(text)
    /\ pc' = "done"
    /\ UNCHANGED <<mode, markdown_text, lines, i, blocks, text, content, extracted, laterVars>>

InitTitle ==
    /\ mode = "title" /\ pc = "infer"
    /\ content \in [title : PlatformTitles, summary : Summaries]
    /\ extracted = [called |-> FALSE, value |-> None]
    /\ IdleConverter /\ IdleInline /\ IdleLater

\* lines 209-221
InferTitleStep ==
    /\ mode = "title" /\ pc = "infer"
    /\ content' = InferTitle(content)
    /\ extracted' = IF ExtractionAttempted(content)
                    THEN [called |-> TRUE, value |-> extract_title_from_summary(content.summary)]
                    ELSE extracted
    /\ pc' = "done"
    /\ UNCHANGED <<mode, markdown_text, lines, i, blocks, text, result, laterVars>>

NextConvert == SplitStep \/ ScanStep \/ ReturnBlocks

NextInline == InlineCall

SpecConvert == InitConvert /\ [][NextConvert]_vars

SpecInline == InitInline /\ [][NextInline]_vars

NextTitle == InferTitleStep

SpecTitle == InitTitle /\ [][NextTitle]_vars

InitCapitalize ==
    /\ mode = "capitalize" /\ pc = "call"
    /\ title_in \in CapitalizeInputs
    /\ title_out = ""
    /\ IdleConverter /\ IdleInline /\ IdleTitle /\ IdleExtract /\ IdleProcess
    /\ IdleRetry /\ IdleBatch

\* lines 60-99
CapitalizeCall ==
    /\ mode = "capitalize" /\ pc = "call"
    /\ title_out' = capitalize_title(title_in)
    /\ pc' = "done"
    /\ UNCHANGED <<mode, converterVars, inlineVars, titleVars, title_in, extractVars,
                   processVars, retryVars, batchVars>>

NextCapitalize == CapitalizeCall

SpecCapitalize == InitCapitalize /\ [][NextCapitalize]_vars

\* _extract_title_from_summary, one search at a time
InitExtract ==
    /\ mode = "extract" /\ pc = "enter"
    /\ ex_summary \in SummaryTexts
    /\ ex_overview = None /\ ex_k = 0 /\ ex_tried = <<>> /\ ex_ret = None
    /\ IdleConverter /\ IdleInline /\ IdleTitle /\ IdleCapitalize /\ IdleProcess
    /\ IdleRetry /\ IdleBatch

Searched(stage, k) == [stage |-> stage, pattern |-> k]

\* lines 117-120: the search for the Overview section
OverviewSearch ==
    /\ mode = "extract" /\ pc = "enter"
    /\ LET overview_match == OverviewMatch(ex_summary)
       IN  /\ ex_overview' = IF overview_match # None
                             THEN Some(Strip(overview_match[1]))
                             ELSE None
           /\ pc' = IF overview_match # None THEN "overview_patterns" ELSE "summary_patterns"
    /\ ex_k' = 1
    /\ ex_tried' = Append(ex_tried, Searched("overview", 0))
    /\ UNCHANGED <<mode, converterVars, inlineVars, titleVars, capitalizeVars, processVars,
                   retryVars, batchVars, ex_summary, ex_ret>>

\* OverviewPatternStep without its return: a match is kept and the loop goes on
OverviewPatternStep_NoReturn ==
    /\ mode = "extract" /\ pc = "overview_patterns"
    /\ LET turn == TryPattern(ex_overview[1], ex_k)
       IN  /\ ex_ret' = IF turn.returned THEN turn.value ELSE ex_ret
           /\ pc' = IF ex_k < Len(patterns) THEN pc
                    ELSE IF ex_ret' # None THEN "done" ELSE "first_sentence"
           /\ ex_k' = ex_k + 1
    /\ ex_tried' = Append(ex_tried, Searched("a", ex_k))
    /\ UNCHANGED <<mode, converterVars, inlineVars, titleVars, capitalizeVars, processVars,
                   retryVars, batchVars, ex_summary, ex_overview>>

\* lines 123-126: one turn of the loop over the patterns, in the overview
OverviewPatternStep ==
    /\ mode = "extract" /\ pc = "overview_patterns"
    /\ LET turn == TryPattern(ex_overview[1], ex_k)
       IN  /\ ex_ret' = turn.value
           /\ pc' = IF turn.returned THEN "done"
                    ELSE IF ex_k < Len(patterns) THEN pc ELSE "first_sentence"
           /\ ex_k' = IF turn.returned THEN ex_k ELSE ex_k + 1
    /\ ex_tried' = Append(ex_tried, Searched("a", ex_k))
    /\ UNCHANGED <<mode, converterVars, inlineVars, titleVars, capitalizeVars, processVars,
                   retryVars, batchVars, ex_summary, ex_overview>>

\* FirstSentenceStep that goes on to the whole summary when the title is empty
FirstSentenceStep_FallsThrough ==
    /\ mode = "extract" /\ pc = "first_sentence"
    /\ LET t == TitleFromFirstSentence(ex_overview[1])
       IN  /\ ex_ret' = IF t = "" THEN None ELSE Some(t)
           /\ pc' = IF t = "" THEN "summary_patterns" ELSE "done"
    /\ ex_k' = 1
    /\ ex_tried' = Append(ex_tried, Searched("b", 0))
    /\ UNCHANGED <<mode, converterVars, inlineVars, titleVars, capitalizeVars, processVars,
                   retryVars, batchVars, ex_summary, ex_overview>>

\* lines 128-158: the first sentence of the overview; it always returns
FirstSentenceStep ==
    /\ mode = "extract" /\ pc = "first_sentence"
    /\ ex_ret' = Some(TitleFromFirstSentence(ex_overview[1]))
    /\ pc' = "done"
    /\ ex_tried' = Append(ex_tried, Searched("b", 0))
    /\ UNCHANGED <<mode, converterVars, inlineVars, titleVars, capitalizeVars, processVars,
                   retryVars, batchVars, ex_summary, ex_overview, ex_k>>

\* lines 160-165: one turn of the loop over the patterns, in the whole summary
SummaryPatternStep ==
    /\ mode = "extract" /\ pc = "summary_patterns"
    /\ LET turn == TryPattern(ex_summary, ex_k)
       IN  /\ ex_ret' = turn.value
           /\ pc' = IF turn.returned THEN "done"
                    ELSE IF ex_k < Len(patterns) THEN pc ELSE "heading"
           /\ ex_k' = IF turn.returned THEN ex_k ELSE ex_k + 1
    /\ ex_tried' = Append(ex_tried, Searched("c", ex_k))
    /\ UNCHANGED <<mode, converterVars, inlineVars, titleVars, capitalizeVars, processVars,
                   retryVars, batchVars, ex_summary, ex_overview>>

\* lines 167-172: the first h2 heading, or None
HeadingStep ==
    /\ mode = "extract" /\ pc = "heading"
    /\ ex_ret' = HeadingFallback(ex_summary)
    /\ pc' = "done"
    /\ ex_tried' = Append(ex_tried, Searched("d", 0))
    /\ UNCHANGED <<mode, converterVars, inlineVars, titleVars, capitalizeVars, processVars,
                   retryVars, batchVars, ex_summary, ex_overview, ex_k>>

NextExtract ==
    \/ OverviewSearch
    \/ OverviewPatternStep
    \/ FirstSentenceStep
    \/ SummaryPatternStep
    \/ HeadingStep

SpecExtract == InitExtract /\ [][NextExtract]_vars

\* one call of process
InitProcess ==
    /\ mode = "process" /\ pc = "run"
    /\ \E url \in Urls : tasks = <<NewTask(url, 1)>>
    /\ extractor = <<[video_id |-> ""]>>
    /\ store = <<>>
    /\ IdleConverter /\ IdleInline /\ IdleTitle /\ IdleCapitalize /\ IdleExtract
    /\ IdleRetry /\ IdleBatch

\* two calls of process running at once, one per url of a batch, on the one
\* pipeline object main creates or on a pipeline object each
InitTasks ==
    /\ mode = "tasks" /\ pc = "run"
    /\ \E p \in {1, 2} :
          tasks = <<NewTask("https://youtu.be/dQw4w9WgXcQ", 1),
                    NewTask("https://www.youtube.com/watch?v=abc123XYZ90", p)>>
    /\ extractor = <<[video_id |-> ""], [video_id |-> ""]>>
    /\ store = <<>>
    /\ IdleConverter /\ IdleInline /\ IdleTitle /\ IdleCapitalize /\ IdleExtract
    /\ IdleRetry /\ IdleBatch

Running(t) == mode \in {"process", "tasks", "batch", "publish", "infer"} /\ t \in DOMAIN tasks

\* ExtractorOf with one extractor for every pipeline object
ExtractorOf_Global(t) == 1

\* the extractor the call t uses: the one of its pipeline object
ExtractorOf(t) == tasks[t].pipeline

OtherVarsUnchanged ==
    UNCHANGED <<mode, pc, converterVars, inlineVars, titleVars, capitalizeVars, extractVars,
               retryVars, batchVars>>

\* pipeline.py lines 178-180
ValidateStep(t) ==
    /\ Running(t) /\ tasks[t].pc = "validate"
    /\ tasks' = [tasks EXCEPT ![t] =
          IF ValidUrl(@.url)
          THEN [Reported(Entered(@, "validate"), 5) EXCEPT !.pc = "set_video_id"]
          ELSE Raised(Entered(@, "validate"), "validate",
                      IF @.url = "" THEN "URL must be a non-empty string"
                      ELSE "URL must be a valid YouTube URL")]
    /\ UNCHANGED <<extractor, store>>
    /\ OtherVarsUnchanged

\* pipeline.py lines 183-184, youtube.py lines 205 and 40: get_video_info stores
\* the id of the url in the extractor
SetVideoIdStep(t) ==
    /\ Running(t) /\ tasks[t].pc = "set_video_id"
    /\ LET id == extract_video_id(tasks[t].url)
       IN  IF id = None
           THEN /\ tasks' = [tasks EXCEPT ![t] =
                      Raised(Reported(Entered(@, "fetch"), 10), "fetch",
                             "Could not extract video ID from URL")]
                /\ UNCHANGED extractor
           ELSE /\ tasks' = [tasks EXCEPT ![t] =
                      [Reported(Entered(@, "fetch"), 10) EXCEPT !.pc = "video_info"]]
                /\ extractor' = [extractor EXCEPT ![ExtractorOf(t)].video_id = id[1]]
    /\ UNCHANGED store
    /\ OtherVarsUnchanged

\* youtube.py lines 42-86: the metadata of the url, with the id read back
\* from the extractor; the basic info when the lookup raises
VideoInfoStep(t) ==
    /\ Running(t) /\ tasks[t].pc = "video_info"
    /\ \E metadata \in {"titled", "untitled", "error"} :
          LET video_id == extractor[ExtractorOf(t)].video_id
              video_info ==
                  [EmptyContent EXCEPT
                      !.id = video_id,
                      !.title = CASE metadata = "titled" -> PlatformTitle(tasks[t].url)
                                  [] metadata = "untitled" -> ""
                                  [] metadata = "error" -> FallbackTitle(video_id),
                      !.url = tasks[t].url]
          IN  tasks' = [tasks EXCEPT ![t] =
                  [@ EXCEPT !.pc = "fetch_transcript", !.content = video_info]]
    /\ UNCHANGED <<extractor, store>>
    /\ OtherVarsUnchanged

\* FetchTranscriptStep that hands an empty transcript on
FetchTranscriptStep_NoCheck(t) ==
    /\ Running(t) /\ tasks[t].pc = "fetch_transcript"
    /\ \E got \in {"text", "empty", "error"} :
          LET video_id == extractor[ExtractorOf(t)].video_id
          IN  tasks' = [tasks EXCEPT ![t] =
                  IF got = "error"
                  THEN Raised(@, "fetch", "Failed to fetch transcript")
                  ELSE [Reported(@, 30) EXCEPT
                           !.pc = "summarize",
                           !.content.transcript =
                               IF got = "text" THEN TranscriptOf(video_id) ELSE ""]]
    /\ UNCHANGED <<extractor, store>>
    /\ OtherVarsUnchanged

\* youtube.py lines 126-196 and 208-215, pipeline.py lines 186-187: the
\* captions of the video whose id the extractor holds; an empty transcript
\* or an error raises, a transcript is reported at 30%
FetchTranscriptStep(t) ==
    /\ Running(t) /\ tasks[t].pc = "fetch_transcript"
    /\ \E got \in {"text", "empty", "error"} :
          LET video_id == extractor[ExtractorOf(t)].video_id
          IN  tasks' = [tasks EXCEPT ![t] =
                  IF video_id = ""
                  THEN Raised(@, "fetch", "No video ID available. Call get_video_info first.")
                  ELSE IF got = "error"
                  THEN Raised(@, "fetch", "Failed to fetch transcript")
                  ELSE IF got = "empty"
                  THEN Raised(@, "fetch", "No transcript available for this video.")
                  ELSE [Reported(@, 30) EXCEPT
                           !.pc = "summarize",
                           !.content.transcript = TranscriptOf(video_id)]]
    /\ UNCHANGED <<extractor, store>>
    /\ OtherVarsUnchanged

\* pipeline.py lines 196-207, summarizer.py lines 144-178: the summary of the
\* transcript; no transcript, an error of the model or an empty answer raises
SummarizeStep(t) ==
    /\ Running(t) /\ tasks[t].pc = "summarize"
    /\ \E got \in {"text", "empty", "error"} :
          LET entered == Reported(Entered(tasks[t], "summarize"), 40)
          IN  tasks' = [tasks EXCEPT ![t] =
                  IF entered.content.transcript = ""
                  THEN Raised(entered, "summarize", "No transcript available for summarization.")
                  ELSE IF got = "error"
                  THEN Raised(entered, "summarize", "API error")
                  ELSE IF got = "empty"
                  THEN Raised(entered, "summarize", "Failed to generate summary")
                  ELSE [Reported(entered, 70) EXCEPT
                           !.pc = "infer_title",
                           !.content.summary = SummaryOf(entered.content.transcript)]]
    /\ UNCHANGED <<extractor, store>>
    /\ OtherVarsUnchanged

\* InferTitleStage that builds a new record from the title and the summary
InferTitleStage_NewRecord(t) ==
    /\ Running(t) /\ tasks[t].pc = "infer_title"
    /\ tasks' = [tasks EXCEPT ![t] =
          [Entered(@, "infer_title") EXCEPT
              !.pc = "publish",
              !.content = [EmptyContent EXCEPT !.title = InferTitle(tasks[t].content).title,
                                               !.url = tasks[t].content.url,
                                               !.summary = tasks[t].content.summary]]]
    /\ UNCHANGED <<extractor, store>>
    /\ OtherVarsUnchanged

\* pipeline.py lines 209-221
InferTitleStage(t) ==
    /\ Running(t) /\ tasks[t].pc = "infer_title"
    /\ tasks' = [tasks EXCEPT ![t] =
          [Entered(@, "infer_title") EXCEPT !.pc = "publish", !.content = InferTitle(@)]]
    /\ UNCHANGED <<extractor, store>>
    /\ OtherVarsUnchanged

\* pipeline.py lines 223-233: 80% is reported, add_to_database is called,
\* and when it returns 100% is reported and its record returned
PublishStep(t) ==
    /\ Running(t) /\ tasks[t].pc = "publish"
    /\ \E notion \in NotionOutcomes :
        \E call \in {add_to_database(tasks[t].content, notion, store)} :
          LET entered == Reported(Entered(tasks[t], "publish"), 80)
          IN  /\ store' = call.pages
              /\ tasks' = [tasks EXCEPT ![t] =
                    IF call.raised
                    THEN Raised(entered, "publish", call.error)
                    ELSE [Reported(entered, 100) EXCEPT
                             !.pc = "done", !.outcome = "returned",
                             !.content = call.content,
                             !.failed = IF call.error = "" THEN "" ELSE "publish",
                             !.error = call.error]]
    /\ UNCHANGED extractor
    /\ OtherVarsUnchanged

\* a call of add_to_database by itself, on the record of the call t
AddToDatabaseCall(t) ==
    /\ mode = "publish" /\ t \in DOMAIN tasks /\ tasks[t].pc = "add_to_database"
    /\ \E notion \in NotionOutcomes :
        \E call \in {add_to_database(tasks[t].content, notion, store)} :
              /\ store' = call.pages
              /\ tasks' = [tasks EXCEPT ![t] =
                    [@ EXCEPT !.pc = "done",
                              !.outcome = IF call.raised THEN "raised" ELSE "returned",
                              !.content = call.content,
                              !.failed = IF call.error = "" THEN "" ELSE "publish",
                              !.error = call.error]]
    /\ UNCHANGED extractor
    /\ OtherVarsUnchanged

NextProcess ==
    \E t \in DOMAIN tasks :
        \/ ValidateStep(t)
        \/ SetVideoIdStep(t)
        \/ VideoInfoStep(t)
        \/ FetchTranscriptStep(t)
        \/ SummarizeStep(t)
        \/ InferTitleStage(t)
        \/ PublishStep(t)

SpecProcess == InitProcess /\ [][NextProcess]_vars

SpecTasks == InitTasks /\ [][NextProcess]_vars

\* add_to_database called by process, and called by itself on a record
InitPublish ==
    /\ mode = "publish" /\ pc = "run"
    /\ \/ \E url \in PublishUrls : tasks = <<NewTask(url, 1)>>
       \/ \E c \in PublishContents :
             tasks = <<[NewTask(c.url, 1) EXCEPT !.pc = "add_to_database", !.content = c]>>
    /\ extractor = <<[video_id |-> ""]>>
    /\ store = <<>>
    /\ IdleConverter /\ IdleInline /\ IdleTitle /\ IdleCapitalize /\ IdleExtract
    /\ IdleRetry /\ IdleBatch

NextPublish == NextProcess \/ \E t \in DOMAIN tasks : AddToDatabaseCall(t)

SpecPublish == InitPublish /\ [][NextPublish]_vars

\* process from the title decision on: fetch and summarize have returned
InitInfer ==
    /\ mode = "infer" /\ pc = "run"
    /\ \E c \in InferContents :
          tasks = <<[NewTask(c.url, 1) EXCEPT
                        !.pc = "infer_title", !.content = c,
                        !.log = <<"validate", "fetch", "summarize">>,
                        !.reports = <<5, 10, 30, 40, 70>>]>>
    /\ extractor = <<[video_id |-> "dQw4w9WgXcQ"]>>
    /\ store = <<>>
    /\ IdleConverter /\ IdleInline /\ IdleTitle /\ IdleCapitalize /\ IdleExtract
    /\ IdleRetry /\ IdleBatch

NextInfer == \E t \in DOMAIN tasks : InferTitleStage(t) \/ PublishStep(t)

SpecInfer == InitInfer /\ [][NextInfer]_vars

\* main in batch mode, with the pipeline object of line 145
InitBatch ==
    /\ mode = "batch" /\ pc = "read"
    /\ input_file \in InputFiles
    /\ urls = <<>> /\ results = NoResults
    /\ tasks = <<>>
    /\ extractor = <<[video_id |-> ""]>>
    /\ store = <<>>
    /\ IdleConverter /\ IdleInline /\ IdleTitle /\ IdleCapitalize /\ IdleExtract
    /\ IdleRetry

BatchFrame ==
    UNCHANGED <<mode, input_file, converterVars, inlineVars, titleVars, capitalizeVars,
                extractVars, retryVars, extractor, store>>

\* main.py lines 148-161: the urls of the file; main exits when there is none
ReadUrls ==
    /\ mode = "batch" /\ pc = "read"
    /\ urls' = read_urls_from_file(input_file)
    /\ pc' = IF urls' = <<>> THEN "exit" ELSE "loop"
    /\ UNCHANGED <<results, tasks>>
    /\ BatchFrame

\* main.py lines 163-165, 102-108: the next url of the loop goes to
\* process_url, which calls process on main's pipeline
ProcessUrlCall ==
    /\ mode = "batch" /\ pc = "loop"
    /\ Len(tasks) < Len(urls)
    /\ tasks' = Append(tasks, NewTask(urls[Len(tasks) + 1], 1))
    /\ pc' = "process_url"
    /\ UNCHANGED <<urls, results>>
    /\ BatchFrame

\* ProcessUrlReturn that lets the exception of process leave the loop
ProcessUrlReturn_NoCatch ==
    /\ mode = "batch" /\ pc = "process_url"
    /\ tasks[Len(tasks)].pc = "done"
    /\ LET call == tasks[Len(tasks)]
       IN  IF call.outcome = "returned"
           THEN /\ results' = [results EXCEPT !.success = Append(@, call.content)]
                /\ pc' = "loop"
           ELSE /\ pc' = "exit"
                /\ UNCHANGED results
    /\ UNCHANGED <<urls, tasks>>
    /\ BatchFrame

\* main.py lines 109-127, 165-169: process returned or raised; process_url
\* hands back the record or the error, and the loop files it
ProcessUrlReturn ==
    /\ mode = "batch" /\ pc = "process_url"
    /\ tasks[Len(tasks)].pc = "done"
    /\ LET call == tasks[Len(tasks)]
       IN  results' =
              IF call.outcome = "returned"
              THEN [results EXCEPT !.success = Append(@, call.content)]
              ELSE [results EXCEPT
                       !.failures = Append(@, [error |-> call.error, url |-> call.url])]
    /\ pc' = "loop"
    /\ UNCHANGED <<urls, tasks>>
    /\ BatchFrame

\* main.py lines 171-180: the loop is over, the summary is printed
BatchSummary ==
    /\ mode = "batch" /\ pc = "loop"
    /\ Len(tasks) = Len(urls)
    /\ pc' = "summary"
    /\ UNCHANGED <<urls, results, tasks>>
    /\ BatchFrame

NextBatch == ReadUrls \/ ProcessUrlCall \/ NextProcess \/ ProcessUrlReturn \/ BatchSummary

SpecBatch == InitBatch /\ [][NextBatch]_vars

\* one call of summarize_with_openai
InitRetry ==
    /\ mode = "retry" /\ pc = "enter"
    /\ max_retries \in RetryCounts
    /\ retry_delay \in RetryDelays
    /\ attempt = 0 /\ current_delay = 0 /\ last_error = None
    /\ api_calls = <<>> /\ sleeps = <<>> /\ reply = NoReply
    /\ IdleConverter /\ IdleInline /\ IdleTitle /\ IdleCapitalize /\ IdleExtract
    /\ IdleProcess /\ IdleBatch

RetryFrame ==
    UNCHANGED <<mode, max_retries, retry_delay, converterVars, inlineVars, titleVars,
                capitalizeVars, extractVars, processVars, batchVars>>

\* summarizer.py lines 88-107: the import, the key check, the client and the
\* messages, then the three variables of the loop
RetryEnter ==
    /\ mode = "retry" /\ pc = "enter"
    /\ \E setup \in {"ready", "no_package", "no_key"} :
          IF setup = "ready"
          THEN /\ attempt' = 0
               /\ current_delay' = retry_delay
               /\ last_error' = None
               /\ pc' = "retry_loop"
               /\ UNCHANGED reply
          ELSE /\ reply' = [kind |-> "raised",
                            value |-> IF setup = "no_key" THEN "ValueError" ELSE "ImportError"]
               /\ pc' = "done"
               /\ UNCHANGED <<attempt, current_delay, last_error>>
    /\ UNCHANGED <<api_calls, sleeps>>
    /\ RetryFrame

\* OpenAICall that waits the same time before every retry
OpenAICall_FixedDelay ==
    /\ mode = "retry" /\ pc = "retry_loop"
    /\ attempt < max_retries
    /\ \E outcome \in ApiOutcomes :
          /\ api_calls' = Append(api_calls, outcome)
          /\ IF outcome = "response"
             THEN /\ reply' = [kind |-> "returned", value |-> Strip(Completion)]
                  /\ pc' = "done"
                  /\ UNCHANGED <<attempt, current_delay, last_error, sleeps>>
             ELSE IF outcome \in TransientErrors
             THEN /\ attempt' = attempt + 1
                  /\ last_error' = Some(outcome)
                  /\ IF attempt + 1 < max_retries
                     THEN /\ sleeps' = Append(sleeps, current_delay)
                          /\ UNCHANGED <<current_delay, pc, reply>>
                     ELSE /\ reply' = [kind |-> "raised", value |-> outcome]
                          /\ pc' = "done"
                          /\ UNCHANGED <<sleeps, current_delay>>
             ELSE /\ reply' = [kind |-> "raised", value |-> outcome]
                  /\ pc' = "done"
                  /\ UNCHANGED <<attempt, current_delay, last_error, sleeps>>
    /\ RetryFrame

\* summarizer.py lines 109-136: one turn of the while loop, the call of the
\* completion API and what its outcome leads to
OpenAICall ==
    /\ mode = "retry" /\ pc = "retry_loop"
    /\ attempt < max_retries
    /\ \E outcome \in ApiOutcomes :
          /\ api_calls' = Append(api_calls, outcome)
          /\ IF outcome = "response"
             THEN /\ reply' = [kind |-> "returned", value |-> Strip(Completion)]
                  /\ pc' = "done"
                  /\ UNCHANGED <<attempt, current_delay, last_error, sleeps>>
             ELSE IF outcome \in TransientErrors
             THEN /\ attempt' = attempt + 1
                  /\ last_error' = Some(outcome)
                  /\ IF attempt + 1 < max_retries
                     THEN /\ sleeps' = Append(sleeps, current_delay)
                          /\ current_delay' = current_delay * 2
                          /\ UNCHANGED <<pc, reply>>
                     ELSE /\ reply' = [kind |-> "raised", value |-> outcome]
                          /\ pc' = "done"
                          /\ UNCHANGED <<sleeps, current_delay>>
             ELSE /\ reply' = [kind |-> "raised", value |-> outcome]
                  /\ pc' = "done"
                  /\ UNCHANGED <<attempt, current_delay, last_error, sleeps>>
    /\ RetryFrame

\* summarizer.py lines 138-139: the loop ended without a return or a raise;
\* raise of None is a TypeError
RetriesExhausted ==
    /\ mode = "retry" /\ pc = "retry_loop"
    /\ ~(attempt < max_retries)
    /\ reply' = [kind |-> "raised",
                 value |-> IF last_error = None THEN "TypeError" ELSE last_error[1]]
    /\ pc' = "done"
    /\ UNCHANGED <<attempt, current_delay, last_error, api_calls, sleeps>>
    /\ RetryFrame

NextRetry == RetryEnter \/ OpenAICall \/ RetriesExhausted

SpecRetry == InitRetry /\ [][NextRetry]_vars

(***************************************************************************)
(* Claims about convert_markdown_to_notion_blocks.                         *)
(***************************************************************************)
ConvertDone == mode = "convert" /\ pc = "done"

\* a non-blank trimmed line that no rule before the paragraph default takes
NoRuleTakes(line) ==
    /\ line # ""
    /\ HeaderMatch(line).level = 0
    /\ ~IsBulleted(line)
    /\ ~NumberedMatch(line).ok
    /\ ~IsQuote(line)
    /\ ~IsFence(line)
    /\ ~IsDivider(line)

\* The logical units of a list of lines, read off the text alone: a blank
\* line is none, a line whose trimmed form starts with the fence starts a
\* unit that runs to the next such line or to the end, any other line is a
\* unit by itself.  first and last are 1-based line numbers.
RECURSIVE LogicalUnits(_, _)
LogicalUnits(ls, n) ==
    IF n > Len(ls) THEN <<>>
    ELSE IF Strip(ls[n]) = "" THEN LogicalUnits(ls, n + 1)
    ELSE IF StartsWith(Strip(ls[n]), Fence)
    THEN LET closers == {m \in (n + 1)..Len(ls) : StartsWith(Strip(ls[m]), Fence)}
             last == IF closers = {} THEN Len(ls) ELSE Min(closers)
         IN  <<[fenced |-> TRUE, first |-> n, last |-> last, closed |-> closers # {}]>>
             \o LogicalUnits(ls, last + 1)
    ELSE <<[fenced |-> FALSE, first |-> n, last |-> n, closed |-> FALSE]>>
         \o LogicalUnits(ls, n + 1)

Units == LogicalUnits(lines, 1)

\* C1: the converter terminates and raises nothing on every input: the
\* cursor i never passes the end of the lines, and in every state the scan
\* loop can be in, the iteration it runs moves i forward by at least one line
\* and not past the end (so there are at most len(lines) iterations) and
\* appends at most one block; for a line that matches no rule that block is
\* a paragraph.
C1_ScanAdvancesAndReturns ==
    (mode = "convert" /\ pc # "split") =>
        /\ i <= Len(lines)
        /\ Len(lines) >= 1
        /\ pc = "done" => i = Len(lines)
        /\ (pc = "scan" /\ i < Len(lines)) =>
              LET step == ScanIteration(lines, i)
              IN  /\ step.i > i
                  /\ step.i <= Len(lines)
                  /\ Len(step.emit) <= 1
                  /\ NoRuleTakes(Strip(lines[i + 1])) =>
                        /\ Len(step.emit) = 1
                        /\ step.emit[1].type = "paragraph"

\* a run that returned from an input with a plain line and an unclosed fence
C1_Witness ==
    /\ ConvertDone
    /\ markdown_text = "  a \n" \o Fence \o "\n\n# a"
    /\ i = 4
    /\ Len(blocks) = 2
    /\ blocks[1].type = "paragraph"
    /\ blocks[2].type = "code"

\* C2: the returned blocks are in source order and one-to-one with the
\* logical units of the input: there are as many blocks as units (non-blank
\* lines outside fences plus fenced blocks) and the k-th block is the block
\* the k-th unit gives when converted alone, so plain lines are never merged.
C2_BlocksMatchUnits ==
    ConvertDone =>
        /\ Len(blocks) = Len(Units)
        /\ Len(blocks) = Cardinality({n \in 1..Len(lines) :
                                        /\ Strip(lines[n]) # ""
                                        /\ ~IsFence(Strip(lines[n]))
                                        /\ \A u \in 1..Len(Units) :
                                              ~(Units[u].first <= n /\ n <= Units[u].last
                                                /\ Units[u].fenced)})
                         + Cardinality({u \in 1..Len(Units) : Units[u].fenced})
        /\ \A u \in 1..Len(Units) :
              /\ blocks[u] = ScanIteration(SubSeq(lines, Units[u].first, Units[u].last), 0).emit[1]
              /\ (blocks[u].type = "code") = Units[u].fenced

\* two plain lines in a row, then a fence with a blank line inside, closed
C2_Witness ==
    /\ ConvertDone
    /\ Len(lines) = 4
    /\ Len(Units) >= 2
    /\ \E u \in 1..(Len(Units) - 1) :
          /\ ~Units[u].fenced /\ ~Units[u + 1].fenced
          /\ Units[u + 1].first = Units[u].first + 1
    /\ Len(blocks) = Len(Units)

\* the kind the first matching rule gives a non-blank trimmed line, each rule
\* stated with the rules before it excluded
KindByPrecedence(line) ==
    CASE HeaderMatch(line).level > 0 -> "heading_" \o DigitStr(HeaderMatch(line).level)
      [] HeaderMatch(line).level = 0 /\ IsBulleted(line) -> "bulleted_list_item"
      [] HeaderMatch(line).level = 0 /\ ~IsBulleted(line) /\ NumberedMatch(line).ok
            -> "numbered_list_item"
      [] HeaderMatch(line).level = 0 /\ ~IsBulleted(line) /\ ~NumberedMatch(line).ok
            /\ IsQuote(line) -> "quote"
      [] HeaderMatch(line).level = 0 /\ ~IsBulleted(line) /\ ~NumberedMatch(line).ok
            /\ ~IsQuote(line) /\ IsFence(line) -> "code"
      [] HeaderMatch(line).level = 0 /\ ~IsBulleted(line) /\ ~NumberedMatch(line).ok
            /\ ~IsQuote(line) /\ ~IsFence(line) /\ line \in {"---", "___", "***"} -> "divider"
      [] OTHER -> "paragraph"

\* C3: the kind of the block of every line outside a fence is the kind of
\* the first rule that matches it, in the order heading, bulleted, numbered,
\* quote, fence, divider, paragraph; a line whose trimmed form is exactly
\* ---, ___ or *** gives a divider block that has no spans at all.
C3_FirstRuleWins ==
    ConvertDone =>
        /\ Len(blocks) = Len(Units)
        /\ \A u \in 1..Len(Units) :
              LET line == Strip(lines[Units[u].first])
              IN  /\ blocks[u].type = KindByPrecedence(line)
                  /\ line \in {"---", "___", "***"} =>
                        /\ blocks[u].type = "divider"
                        /\ DOMAIN blocks[u] = {"type"}

\* a returned run over two divider spellings, one of them indented
C3_Witness ==
    /\ ConvertDone
    /\ \E a, b \in 1..Len(lines) : a # b /\ lines[a] = "***" /\ lines[b] = " --- "
    /\ Len(blocks) = 2
    /\ blocks[1] = DividerBlock /\ blocks[2] = DividerBlock

\* a trimmed line made of n hashes, one space and a non-empty rest
RECURSIVE Hashes(_)
Hashes(n) == IF n = 0 THEN "" ELSE "#" \o Hashes(n - 1)

IsHashLine(line, n) ==
    /\ n >= 1
    /\ Len(line) > n + 1
    /\ Slice(line, 0, n + 1) = Hashes(n) \o " "

\* C4: a line of n hashes, a space and non-empty content gives a heading
\* block of level n for n = 1, 2, 3 and a paragraph block for n >= 4.
C4_HeadingLevels ==
    ConvertDone =>
        /\ Len(blocks) = Len(Units)
        /\ \A u \in 1..Len(Units) : \A n \in 1..6 :
              IsHashLine(Strip(lines[Units[u].first]), n) =>
                  blocks[u].type = IF n <= 3 THEN "heading_" \o DigitStr(n) ELSE "paragraph"

\* a returned run over a level-3 heading and a line of four hashes
C4_Witness ==
    /\ ConvertDone
    /\ lines = <<"### a", "#### a">>
    /\ blocks[1].type = "heading_3"
    /\ blocks[2].type = "paragraph"

\* what the code branch keeps of a fenced unit: the lines after the opening
\* line up to the closing line, or to the end when nothing closes the fence
FencedBody(ls, u) == SubSeq(ls, u.first + 1, IF u.closed THEN u.last - 1 ELSE u.last)

\* C5 as stated: the language of the code block is the text after the three
\* backticks of the opening line ('plain text' when empty), its text is the
\* following lines joined by newline up to the closing line, which is
\* skipped; an unclosed fence takes every remaining line.
C5_LanguageIsTextAfterBackticks ==
    ConvertDone =>
        \A u \in 1..Len(Units) :
            (Units[u].fenced /\ StartsWith(lines[Units[u].first], Fence)) =>
                LET after == Slice(lines[Units[u].first], 3, Len(lines[Units[u].first]))
                IN  /\ blocks[u].type = "code"
                    /\ blocks[u].language = IF after = "" THEN "plain text" ELSE after
                    /\ blocks[u].rich_text = <<PlainSpan(JoinLines(FencedBody(lines, Units[u])))>>

\* C5, amended: the language is the text after the three backticks of the
\* trimmed opening line, itself trimmed ('plain text' when that is empty);
\* the code text is the following lines joined by newline, untrimmed and as
\* one plain span, up to but excluding the first later line whose trimmed
\* form starts with three backticks; that line is skipped, and an unclosed
\* fence takes every remaining line and is the last block.
C5_FenceGivesOneCodeBlock ==
    ConvertDone =>
        /\ Len(blocks) = Len(Units)
        /\ \A u \in 1..Len(Units) :
              Units[u].fenced =>
                  LET open == Strip(lines[Units[u].first])
                      lang == Strip(Slice(open, 3, Len(open)))
                  IN  /\ blocks[u].type = "code"
                      /\ blocks[u].language = IF lang = "" THEN "plain text" ELSE lang
                      /\ blocks[u].rich_text = <<PlainSpan(JoinLines(FencedBody(lines, Units[u])))>>
                      /\ Units[u].closed =>
                            /\ StartsWith(Strip(lines[Units[u].last]), Fence)
                            /\ \A n \in (Units[u].first + 1)..(Units[u].last - 1) :
                                  ~StartsWith(Strip(lines[n]), Fence)
                            /\ u < Len(Units) => Units[u + 1].first > Units[u].last
                      /\ ~Units[u].closed =>
                            /\ u = Len(Units)
                            /\ Units[u].last = Len(lines)

\* a fence with a language, one untrimmed line, an indented closing line and
\* a heading after it
C5_Witness ==
    /\ ConvertDone
    /\ lines = <<Fence \o " py", "  a ", " " \o Fence \o " ", "# a">>
    /\ Len(blocks) = 2
    /\ blocks[1] = [type |-> "code", rich_text |-> <<PlainSpan("  a ")>>, language |-> "py"]
    /\ blocks[2].type = "heading_1"

(***************************************************************************)
(* Claims about process_inline_formatting.                                 *)
(***************************************************************************)
InlineDone == mode = "inline" /\ pc = "done"

RECURSIVE ConcatContent(_)
ConcatContent(spans) ==
    IF spans = <<>> THEN "" ELSE spans[1].content \o ConcatContent(Tail(spans))

\* the positions of the opening and closing delimiters of the matched pairs
DelimiterPositions(s) ==
    UNION {{BoldMatches(s, 0)[n].start, BoldMatches(s, 0)[n].start + 1,
            BoldMatches(s, 0)[n].end - 2, BoldMatches(s, 0)[n].end - 1} :
           n \in 1..Len(BoldMatches(s, 0))}

\* s without the characters at the positions in drop, from position k on
RECURSIVE Without(_, _, _)
Without(s, drop, k) ==
    IF k >= Len(s) THEN ""
    ELSE (IF k \in drop THEN "" ELSE At(s, k)) \o Without(s, drop, k + 1)

\* C6: the contents of the returned spans, concatenated in order, are the
\* input text with exactly the delimiters of the matched bold pairs removed.
C6_ContentsAreTextWithoutDelimiters ==
    InlineDone => ConcatContent(result) = Without(text, DelimiterPositions(text), 0)

\* text before and after a matched pair
C6_Witness ==
    /\ InlineDone
    /\ text = "a**a** b"
    /\ result = <<PlainSpan("a"), BoldSpan("a"), PlainSpan(" b")>>

\* where the k-th span starts in the text, when a plain span stands for its
\* content and a bold span for its content between two 2-character delimiters
RECURSIVE SpanStart(_, _)
SpanStart(spans, k) ==
    IF k = 1 THEN 0
    ELSE SpanStart(spans, k - 1) + Len(spans[k - 1].content)
         + (IF spans[k - 1].bold THEN 4 ELSE 0)

\* a pair can open at p: a delimiter at p, and the same delimiter again
\* later on the same line, clear of the opening one
CanOpenAt(s, p) ==
    \E d \in {"**", "__"} :
        /\ Slice(s, p, p + 2) = d
        /\ \E q \in (p + 2)..(Len(s) - 2) :
              /\ Slice(s, q, q + 2) = d
              /\ \A k \in (p + 2)..(q - 1) : At(s, k) # "\n"

\* C7: a span is bold only when its text lies between an opening ** or __
\* and the nearest following occurrence of the same delimiter; the matches
\* are taken left to right without overlap, so no pair could open inside a
\* plain span; non-empty text before a match is a plain span of its own and
\* so is non-empty text after the last match; the spans cover the text.
C7_BoldIsShortestSameDelimiterPair ==
    InlineDone =>
        /\ \A k \in 1..Len(result) :
              LET o == SpanStart(result, k)
                  n == Len(result[k].content)
              IN  IF result[k].bold
                  THEN /\ Slice(text, o, o + 2) \in {"**", "__"}
                       /\ Slice(text, o + 2 + n, o + 4 + n) = Slice(text, o, o + 2)
                       /\ Slice(text, o + 2, o + 2 + n) = result[k].content
                       /\ \A q \in (o + 2)..(o + 1 + n) :
                             Slice(text, q, q + 2) # Slice(text, o, o + 2)
                       /\ o + 4 + n <= Len(text)
                  ELSE /\ Slice(text, o, o + n) = result[k].content
                       /\ \A p \in o..(o + n - 1) : ~CanOpenAt(text, p)
                       /\ (n > 0 \/ text = "")
                       /\ k > 1 => result[k - 1].bold
        /\ result # <<>>
        /\ SpanStart(result, Len(result)) + Len(result[Len(result)].content)
             + (IF result[Len(result)].bold THEN 4 ELSE 0) = Len(text)

\* a run opened by ** and followed only by __ stays plain; the pair of __
\* after it is bold, with the plain text before it as a span of its own
C7_Witness ==
    /\ InlineDone
    /\ text = "**a__a__"
    /\ result = <<PlainSpan("**a"), BoldSpan("a")>>

\* C8: the span list is never empty, and a text without any bold match (the
\* empty text too) gives exactly one span, not bold, holding the whole text.
C8_NeverEmpty ==
    InlineDone =>
        /\ Len(result) >= 1
        /\ (\A p \in 0..(Len(text) - 1) : ~CanOpenAt(text, p)) =>
              result = <<[content |-> text, bold |-> FALSE]>>

C8_Witness == InlineDone /\ text = "" /\ result = <<PlainSpan("")>>

\* the spans put together again, marker around every bold span
RECURSIVE Reassemble(_, _)
Reassemble(spans, marker) ==
    IF spans = <<>> THEN ""
    ELSE (IF spans[1].bold THEN marker \o spans[1].content \o marker ELSE spans[1].content)
         \o Reassemble(Tail(spans), marker)

\* every delimiter of the text belongs to a matched pair
Balanced(s) ==
    \A p \in 0..(Len(s) - 2) :
        Slice(s, p, p + 2) \in {"**", "__"} =>
            \E n \in 1..Len(BoldMatches(s, 0)) :
                BoldMatches(s, 0)[n].start <= p /\ p + 2 <= BoldMatches(s, 0)[n].end

\* the delimiters the matched pairs of the text use
DelimitersUsed(s) ==
    {Slice(s, BoldMatches(s, 0)[n].start, BoldMatches(s, 0)[n].start + 2) :
       n \in 1..Len(BoldMatches(s, 0))}

\* C9 as stated: for a text with no or only balanced pairs, the spans put
\* together with the bold marker around each bold span are the text again
\* (for one of the two markers at least).
C9_RoundTripAnyBalanced ==
    (InlineDone /\ Balanced(text)) =>
        \E marker \in {"**", "__"} : Reassemble(result, marker) = text

\* C9, amended: the round trip holds when all matched pairs of the text use
\* one delimiter and that delimiter is the marker put back; a span keeps no
\* record of its delimiter, so a text that mixes ** pairs and __ pairs does
\* not come back.
C9_RoundTripSameDelimiter ==
    InlineDone =>
        \A marker \in {"**", "__"} :
            (DelimitersUsed(text) \subseteq {marker}) => Reassemble(result, marker) = text

\* a balanced text with a __ pair that comes back with __ as the marker
C9_Witness ==
    /\ InlineDone
    /\ text = "__a__ b"
    /\ Balanced(text)
    /\ result = <<BoldSpan("a"), PlainSpan(" b")>>
    /\ Reassemble(result, "__") = text

(***************************************************************************)
(* Claims about the title inference of process.                            *)
(***************************************************************************)
TitleDone == mode = "title" /\ pc = "done"

\* C10 as stated: with a non-empty platform title or summary the title that
\* comes out is not empty (the summary is still the one that went in).
C10_TitleNonEmpty ==
    TitleDone => (content.summary # "" => content.title # "")

\* C10, amended: a non-empty platform title always gives a non-empty title;
\* with an empty platform title the title is non-empty exactly when
\* extraction from the summary returns a non-empty string, and stays empty
\* when extraction returns None or the empty string, also for a summary
\* that is not empty.
C10_TitleEmptyIffNothingExtracted ==
    [][(mode = "title" /\ pc = "infer" /\ pc' = "done") =>
          /\ content.title # "" => content'.title # ""
          /\ content.title = "" =>
                /\ extracted'.called
                /\ (content'.title = "") = (extracted'.value \in {None, Some("")})
                /\ content'.title # "" => content'.title = extracted'.value[1]]_vars

\* the placeholder title, replaced by a title extracted from the overview
C10_Witness ==
    /\ TitleDone
    /\ extracted = [called |-> TRUE, value |-> Some("Rome")]
    /\ content.title = "Rome"

\* the step of process that decides the title
InferStep == mode = "title" /\ pc = "infer" /\ pc' = "done"

\* the placeholder the extractor builds from a video id
IsPlaceholder(t) == \E id \in VideoIds : t = "YouTube Summary - " \o id

\* C11 as stated: for a placeholder platform title extraction from the
\* summary is attempted and the title that goes to the document store is
\* not the placeholder.
C11_PlaceholderNeverFinal ==
    [][(InferStep /\ IsPlaceholder(content.title)) =>
          /\ extracted'.called
          /\ content'.title # content.title]_vars

\* C11, amended: for a placeholder platform title extraction from the
\* summary is always attempted; the title that goes to the document store is
\* the extracted one when extraction returns a non-empty string, and it is
\* the placeholder itself, unchanged, exactly when extraction returns None
\* or the empty string.
C11_PlaceholderKeptIffNothingExtracted ==
    [][(InferStep /\ IsPlaceholder(content.title)) =>
          /\ extracted'.called
          /\ extracted'.value = extract_title_from_summary(content.summary)
          /\ (content'.title = content.title) = (extracted'.value \in {None, Some("")})
          /\ content'.title # content.title => content'.title = extracted'.value[1]]_vars

\* a placeholder that went to the document store as the title, extraction
\* having been tried on a summary without structure
C11_Witness ==
    /\ TitleDone
    /\ content = [title |-> "YouTube Summary - abc123XYZ90", summary |-> "plain text"]
    /\ extracted = [called |-> TRUE, value |-> None]

\* a platform title that is present and not of the placeholder shape
IsRealTitle(t) == t # "" /\ Slice(t, 0, 18) # "YouTube Summary - "

\* no character after the first is an uppercase letter
NoUpperPastFirst(t) == \A k \in 1..(Len(t) - 1) : At(t, k) \notin UpperSet

\* C12: with a platform title that is present and not of the placeholder
\* shape the summary is not consulted (extraction is not called, and any
\* other summary gives the same title): the final title is the title-case
\* normalization of the platform title when no character after its first is
\* uppercase, and the platform title unchanged otherwise.
C12_RealTitleDecidesAlone ==
    [][(InferStep /\ IsRealTitle(content.title)) =>
          /\ ~extracted'.called
          /\ content'.summary = content.summary
          /\ content'.title = IF NoUpperPastFirst(content.title)
                              THEN capitalize_title(content.title)
                              ELSE content.title
          /\ \A s \in Summaries :
                InferTitle([content EXCEPT !.summary = s]).title = content'.title]_vars

\* a lower-case platform title normalized without a look at a summary that
\* holds a quoted title
C12_Witness ==
    /\ TitleDone
    /\ ~extracted.called
    /\ content.title = "Hello World"
    /\ content.summary = "## Overview\nThis video discusses the history of \"Rome\"."

\* C14: the one failure of extraction, None, stays distinct from an extracted
\* empty title all the way through process: whatever string extraction
\* returns, the empty one included, becomes the title, and only None leaves
\* the title as it was.
C14_EmptyExtractionIsNotFailure ==
    [][(InferStep /\ extracted'.called) =>
          /\ extracted'.value # None => content'.title = extracted'.value[1]
          /\ extracted'.value = None => content'.title = content.title]_vars

(***************************************************************************)
(* Claims about _capitalize_title.                                         *)
(***************************************************************************)
CapitalizeDone == mode = "capitalize" /\ pc = "done"

MinorWords ==
    {"a", "an", "the", "and", "but", "or", "for", "nor", "on", "at", "to", "from",
     "by", "in", "of", "with", "as"}

\* the word at place k of n, cased as the claim says
TitleCased(word, k, n) ==
    IF k = 1 \/ k = n THEN Capitalize(word)
    ELSE IF Lower(word) \in MinorWords /\ ~IsPunctuation(At(word, 0)) THEN Lower(word)
    ELSE Capitalize(word)

\* the words of t, each cased by its place, rejoined by single spaces
RejoinedTitleCased(t) ==
    LET words == SplitWords(t)
    IN  JoinWords([k \in 1..Len(words) |-> TitleCased(words[k], k, Len(words))])

\* n periods
RECURSIVE Dots(_)
Dots(n) == IF n = 0 THEN "" ELSE "." \o Dots(n - 1)

\* C13 as stated: an empty or whitespace-only title comes back unchanged,
\* and any other title comes back as its words, cased by place, rejoined by
\* single spaces.
C13_WordsCasedAndRejoined ==
    CapitalizeDone =>
        title_out = IF SplitWords(title_in) = <<>> THEN title_in
                    ELSE RejoinedTitleCased(title_in)

\* C13, amended: an empty or whitespace-only title comes back unchanged; any
\* other title comes back as its words rejoined by single spaces, the first
\* and the last capitalized, an interior minor word that does not start with
\* punctuation lowercased, every other interior word capitalized; and when
\* the title ends with three periods, all the periods at the end of that
\* rejoined text are replaced by exactly three.
C13_WordsCasedRejoinedEllipsisReset ==
    CapitalizeDone =>
        LET rejoined == RejoinedTitleCased(title_in)
        IN  /\ SplitWords(title_in) = <<>> => title_out = title_in
            /\ (SplitWords(title_in) # <<>> /\ ~EndsWith(title_in, "...")) =>
                  title_out = rejoined
            /\ (SplitWords(title_in) # <<>> /\ EndsWith(title_in, "...")) =>
                  \E m \in 3..Len(rejoined) :
                     LET stem == Slice(rejoined, 0, Len(rejoined) - m)
                     IN  /\ rejoined = stem \o Dots(m)
                         /\ ~EndsWith(stem, ".")
                         /\ title_out = stem \o Dots(3)
            /\ title_in = "how to bake bread" => title_out = "How to Bake Bread"

\* a minor word in the middle lowercased and one at the end capitalized
C13_Witness ==
    /\ CapitalizeDone
    /\ title_in = "how TO  the"
    /\ title_out = "How to The"

\* the number of periods s ends with
RECURSIVE TrailingDots(_)
TrailingDots(s) ==
    IF Len(s) > 0 /\ At(s, Len(s) - 1) = "." THEN 1 + TrailingDots(Slice(s, 0, Len(s) - 1))
    ELSE 0

\* the number of periods in s
DotCount(s) == Cardinality({k \in 0..(Len(s) - 1) : At(s, k) = "."})

\* C21: for every title that ends with '...', the result of _capitalize_title
\* ends with exactly three periods; for every title that does not, no period
\* is added or removed: the result has the periods of the title, and ends
\* with as many as the title has before its trailing whitespace.
C21_EllipsisExactlyThree ==
    CapitalizeDone =>
        /\ EndsWith(title_in, "...") => TrailingDots(title_out) = 3
        /\ ~EndsWith(title_in, "...") =>
              /\ DotCount(title_out) = DotCount(title_in)
              /\ TrailingDots(title_out) = TrailingDots(Strip(title_in))

\* a title ending with four periods comes back with three
C21_Witness ==
    /\ CapitalizeDone
    /\ title_in = "bake...."
    /\ title_out = "Bake..."

(***************************************************************************)
(* Claims about _extract_title_from_summary.                               *)
(***************************************************************************)
ExtractDone == mode = "extract" /\ pc = "done"

\* the searches of one stage among those evaluated
TriedIn(stage) == SelectSeq(ex_tried, LAMBDA t : t.stage = stage)

\* the function run one search at a time returns what the function returns
ExtractStepsAgree == ExtractDone => ex_ret = extract_title_from_summary(ex_summary)

\* the places in the list of the patterns that match somewhere in s
MatchingPatterns(s) == {k \in 1..Len(patterns) : SearchGroup(patterns[k], s) # None}

\* C15: when the Overview section is located and some labeled pattern
\* matches in it, the searches evaluated are the one for the section and
\* then the patterns in list order from the first up to the first one that
\* matches, and nothing after it; the title is the captured group of that
\* pattern, stripped and normalized, wherever in the section the later
\* patterns would match.
C15_FirstListedPatternWins ==
    (ExtractDone /\ ex_overview # None /\ MatchingPatterns(ex_overview[1]) # {}) =>
        LET first == Min(MatchingPatterns(ex_overview[1]))
        IN  /\ Len(patterns) = 10
            /\ ex_tried = <<Searched("overview", 0)>> \o [k \in 1..first |-> Searched("a", k)]
            /\ ex_ret = Some(capitalize_title(
                            Strip(SearchGroup(patterns[first], ex_overview[1])[1])))

\* an overview where the eighth pattern (from "X") matches before the
\* first (Summary of "X") does: the first pattern gives the title and the
\* second is never searched
C15_Witness ==
    /\ ExtractDone
    /\ ex_summary = "## Overview\nFrom \"the x\", a Summary of 'my talk'. "
    /\ MatchingPatterns(ex_overview[1]) = {1, 8}
    /\ ex_ret = Some("My Talk")
    /\ Len(ex_tried) = 2

\* the stage that returned: the stage of the last search evaluated
ReturnedFrom(stage) ==
    /\ ExtractDone
    /\ ex_tried[Len(ex_tried)].stage = stage

\* the pairs of places of quote characters in s with at least one character
\* and no line break between them
QuotePairs(s) ==
    {pr \in (0..(Len(s) - 1)) \X (0..(Len(s) - 1)) :
        /\ pr[1] + 1 < pr[2]
        /\ IsQuoteChar(At(s, pr[1])) /\ IsQuoteChar(At(s, pr[2]))
        /\ \A j \in (pr[1] + 1)..(pr[2] - 1) : At(s, j) # "\n"}

\* the quoted text of s: between the leftmost opening quote and the nearest
\* closing one
QuotedText(s) ==
    LET open == Min({pr[1] : pr \in QuotePairs(s)})
        close == Min({pr[2] : pr \in {q \in QuotePairs(s) : q[1] = open}})
    IN  Slice(s, open + 1, close)

\* C18: when the Overview section is located and no labeled pattern matches
\* in it, the title comes from the first sentence of the section.  With a
\* quoted substring in the sentence the title is the quoted text, normalized,
\* and no lead-in is stripped.  Without one the lead-ins are stripped; more
\* than 3 words left are cut to the first 7, with ... appended exactly when
\* there were more than 7; 3 words or fewer are used whole; the result is
\* normalized and never has more than 7 words.
C18_FirstSentenceTitle ==
    (ExtractDone /\ ex_overview # None /\ MatchingPatterns(ex_overview[1]) = {}) =>
        LET sentence == Strip(FirstSentence(ex_overview[1]))
            remainder == CleanSentence(sentence)
            words == SplitWords(remainder)
        IN  /\ ReturnedFrom("b")
            /\ ex_ret # None
            /\ QuotePairs(sentence) # {} =>
                  ex_ret[1] = capitalize_title(Strip(QuotedText(sentence)))
            /\ (QuotePairs(sentence) = {} /\ Len(words) > 7) =>
                  ex_ret[1] = capitalize_title(JoinWords(SubSeq(words, 1, 7)) \o "...")
            /\ (QuotePairs(sentence) = {} /\ Len(words) > 3 /\ Len(words) <= 7) =>
                  ex_ret[1] = capitalize_title(JoinWords(words))
            /\ (QuotePairs(sentence) = {} /\ Len(words) <= 3) =>
                  ex_ret[1] = capitalize_title(remainder)
            /\ QuotePairs(sentence) = {} => Len(SplitWords(ex_ret[1])) <= 7

\* a first sentence of eight words after its two lead-ins, cut to seven
C18_Witness ==
    /\ ReturnedFrom("b")
    /\ ex_overview = Some("In this video, the speaker explores one two three four five six seven eight.")
    /\ ex_ret = Some("One Two Three Four Five Six Seven...")

\* the text of the Overview section of every summary text, None where no
\* section is located, and what the function returns for it
SectionOf ==
    [s \in SummaryTexts |->
        LET overview_match == OverviewMatch(s)
        IN  IF overview_match = None THEN None ELSE Some(Strip(overview_match[1]))]

ReturnOf == [s \in SummaryTexts |-> extract_title_from_summary(s)]

HeadingTexts(s) ==
    LET ls == SplitLines(s)
        heads == SelectSeq(ls, LAMBDA l : Slice(l, 0, 3) = "## ")
    IN  [k \in 1..Len(heads) |-> Slice(heads[k], 3, Len(heads[k]))]

\* the summaries the claim is about: no section located, no pattern matching
ReachesHeadingStage ==
    ExtractDone /\ ex_overview = None /\ MatchingPatterns(ex_summary) = {}

RECURSIVE FirstHashesFrom(_, _)
FirstHashesFrom(s, k) ==
    IF k + 3 > Len(s) THEN -1
    ELSE IF Slice(s, k, k + 3) = "## " THEN k
    ELSE FirstHashesFrom(s, k + 1)

\* the text from place k of s to the end of its line
RECURSIVE RestOfLine(_, _)
RestOfLine(s, k) ==
    IF k >= Len(s) \/ At(s, k) = "\n" THEN ""
    ELSE At(s, k) \o RestOfLine(s, k + 1)

StageOrder == <<"validate", "fetch", "summarize", "infer_title", "publish">>

IsPrefix(a, b) == Len(a) <= Len(b) /\ SubSeq(b, 1, Len(a)) = a

InLog(t, stage) == \E k \in DOMAIN tasks[t].log : tasks[t].log[k] = stage

\* the stages of a call come in the order of StageOrder, each at most once,
\* the summarizer is entered only with a transcript and the document store
\* only with a summary
StagesGuarded(t) ==
    /\ IsPrefix(tasks[t].log, StageOrder)
    /\ InLog(t, "summarize") => tasks[t].content.transcript # ""
    /\ InLog(t, "publish") => tasks[t].content.summary # ""

\* the call ended by an exception of the stage it had entered last
RaisedInLastStage(t) ==
    /\ tasks[t].outcome = "raised"
    /\ tasks[t].pc = "done"
    /\ tasks[t].log # <<>>
    /\ tasks[t].log[Len(tasks[t].log)] = tasks[t].failed

\* C16 as stated: in every run of process the stages occur in the order
\* validate, fetch, summarize, infer title, publish, each at most once; the
\* summarizer is never entered without a non-empty transcript, the document
\* store never without a non-empty summary, and a failure in any stage
\* raises out of process with no later stage executed.
C16_FailureInAnyStageRaises ==
    \A t \in DOMAIN tasks :
        /\ StagesGuarded(t)
        /\ tasks[t].failed # "" => RaisedInLastStage(t)

\* C16, amended: the order and the two guards hold as stated; a failure in
\* validate, fetch or summarize raises out of process with no later stage
\* executed; an error of the document store during publish is caught and
\* process returns: without a page id and with no page stored when the page
\* creation failed, with a page that has no properties when only the schema
\* lookup failed.
C16_FailureBeforePublishRaises ==
    \A t \in DOMAIN tasks :
        /\ StagesGuarded(t)
        /\ tasks[t].failed \in {"validate", "fetch", "summarize"} => RaisedInLastStage(t)
        /\ tasks[t].failed = "publish" =>
              /\ tasks[t].outcome = "returned"
              /\ tasks[t].log = StageOrder
              /\ tasks[t].error = "Error adding to Notion database" =>
                    tasks[t].content.notion_page_id = "" /\ store = <<>>
              /\ tasks[t].error = "Error retrieving database schema" =>
                    /\ tasks[t].content.notion_page_id # ""
                    /\ Len(store) = 1 /\ store[1].title = "" /\ store[1].url = ""
        /\ tasks[t].outcome = "returned" /\ tasks[t].failed = "" =>
              /\ tasks[t].log = StageOrder
              /\ Len(store) = 1
              /\ tasks[t].content.notion_page_id # ""

\* a call that went through every stage and returned although the document
\* store failed
C16_Witness ==
    /\ mode = "process"
    /\ tasks[1].outcome = "returned"
    /\ tasks[1].failed = "publish"
    /\ tasks[1].error = "Error adding to Notion database"
    /\ tasks[1].log = StageOrder
    /\ tasks[1].content.summary # ""

(***************************************************************************)
(* Claims about calls of process running at once.                          *)
(***************************************************************************)
OwnId(url) == extract_video_id(url)[1]

\* the records a call of process on url alone hands to the document store
OwnContents(url) ==
    {InferTitle([EmptyContent EXCEPT
                    !.id = OwnId(url), !.title = tt, !.url = url,
                    !.transcript = TranscriptOf(OwnId(url)),
                    !.summary = SummaryOf(TranscriptOf(OwnId(url)))]) :
        tt \in {PlatformTitle(url), "", FallbackTitle(OwnId(url))}}

OwnTitles(url) ==
    {PlatformTitle(url), "", FallbackTitle(OwnId(url))} \cup {c.title : c \in OwnContents(url)}

\* the id, transcript, summary and title of the call t come from its url
DerivesFromOwnUrl(t) ==
    LET c == tasks[t].content
    IN  /\ c.id \in {"", OwnId(tasks[t].url)}
        /\ c.transcript \in {"", TranscriptOf(OwnId(tasks[t].url))}
        /\ c.summary \in {"", SummaryOf(TranscriptOf(OwnId(tasks[t].url)))}
        /\ c.title \in OwnTitles(tasks[t].url)

\* the properties and the blocks of the page stored for the call t come
\* from the url of t; a page stored without a schema has no property
PageDerivesFromOwnUrl(t) ==
    \A k \in DOMAIN store :
        tasks[t].content.notion_page_id = "page " \o DigitStr(k) =>
            \E c \in OwnContents(tasks[t].url) :
                /\ store[k].title \in {c.title, ""}
                /\ store[k].url \in {tasks[t].url, ""}
                /\ store[k].children =
                      <<header_block>> \o convert_markdown_to_notion_blocks(c.summary)

SeparatePipelines ==
    \A t1, t2 \in DOMAIN tasks : t1 # t2 => tasks[t1].pipeline # tasks[t2].pipeline

\* C17 as stated: processing the urls of a batch at once, one call per url,
\* is safe for every interleaving: the transcript, title and blocks of each
\* call derive only from its own url, also when the calls share the one
\* pipeline object.
C17_TasksIsolated ==
    /\ \A t \in DOMAIN tasks : DerivesFromOwnUrl(t)
    /\ \A t \in DOMAIN tasks : PageDerivesFromOwnUrl(t)

\* C17, amended: the transcript, title and blocks of each call derive only
\* from its own url when every call has a pipeline object of its own.
C17_TasksIsolatedOnOwnPipelines ==
    SeparatePipelines =>
        /\ \A t \in DOMAIN tasks : DerivesFromOwnUrl(t)
        /\ \A t \in DOMAIN tasks : PageDerivesFromOwnUrl(t)

\* two calls on separate pipeline objects, both returned, a page stored for
\* each
C17_Witness ==
    /\ mode = "tasks"
    /\ SeparatePipelines
    /\ \A t \in DOMAIN tasks : tasks[t].outcome = "returned" /\ tasks[t].failed = ""
    /\ Len(store) = 2
    /\ store[1].url # store[2].url

(***************************************************************************)
(* Claims about summarize_with_openai.                                     *)
(***************************************************************************)
RetryDone == mode = "retry" /\ pc = "done"

RetryErrors == {"RateLimitError", "APIError", "APIConnectionError", "Timeout"}

LastCall == api_calls[Len(api_calls)]

\* C22: summarize_with_openai makes at most max_retries calls of the
\* completion API; every call but the last made ended with a transient
\* error and was followed by one wait, the waits starting at retry_delay and
\* doubling; a transient error of call number max_retries is raised; any
\* other exception is raised at once; the first response is returned and
\* ends the loop.
C22_RetryWithBackoff ==
    mode = "retry" =>
        /\ Len(api_calls) <= max_retries
        /\ \A k \in 1..(Len(api_calls) - 1) : api_calls[k] \in RetryErrors
        /\ \A k \in DOMAIN sleeps : sleeps[k] = retry_delay * 2^(k - 1)
        /\ (pc = "retry_loop" /\ api_calls # <<>>) =>
              /\ LastCall \in RetryErrors
              /\ Len(sleeps) = Len(api_calls)
              /\ Len(api_calls) < max_retries
        /\ (RetryDone /\ api_calls # <<>>) =>
              /\ Len(sleeps) = Len(api_calls) - 1
              /\ LastCall = "response" => reply = [kind |-> "returned", value |-> Strip(Completion)]
              /\ LastCall \in RetryErrors =>
                    /\ Len(api_calls) = max_retries
                    /\ reply = [kind |-> "raised", value |-> LastCall]
              /\ LastCall \notin RetryErrors \cup {"response"} =>
                    reply = [kind |-> "raised", value |-> LastCall]

\* two transient errors, two waits of 2 and 4 seconds, then the answer of
\* the third call returned
C22_Witness ==
    /\ RetryDone
    /\ max_retries = 3 /\ retry_delay = 2
    /\ api_calls = <<"RateLimitError", "Timeout", "response">>
    /\ sleeps = <<2, 4>>
    /\ reply.kind = "returned"

(***************************************************************************)
(* Claims about main in batch mode.                                        *)
(***************************************************************************)
\* the lines of the file that hold something besides whitespace, stripped
RECURSIVE NonBlankLines(_)
NonBlankLines(file) ==
    IF file = <<>> THEN <<>>
    ELSE (IF Strip(file[1]) = "" THEN <<>> ELSE <<Strip(file[1])>>) \o NonBlankLines(Tail(file))

\* the urls of the calls of process made so far, in order
CalledUrls == [k \in DOMAIN tasks |-> tasks[k].url]

\* the entries of the k-th url: one in the success list when its call
\* returned, one in the failure list when it raised
FiledOnce(k) ==
    LET succ == {j \in DOMAIN results.success : results.success[j].url = urls[k]}
        fail == {j \in DOMAIN results.failures : results.failures[j].url = urls[k]}
        same == {j \in 1..Len(urls) : urls[j] = urls[k]}
    IN  Cardinality(succ) + Cardinality(fail) = Cardinality(same)

\* C23: in batch mode every url read from the input file is processed
\* exactly once, in file order, whatever happens to the urls before it (main
\* leaves the loop early only when the file holds no url); after the loop
\* every url has one entry in the success or in the failure list
\* for each line that holds it, so successes plus failures is the number of
\* urls.
C23_EveryUrlFiledOnce ==
    mode = "batch" =>
        /\ pc # "read" => urls = NonBlankLines(input_file)
        /\ pc = "exit" => urls = <<>> /\ tasks = <<>>
        /\ IsPrefix(CalledUrls, urls)
        /\ pc = "process_url" =>
              Len(results.success) + Len(results.failures) = Len(tasks) - 1
        /\ pc \in {"loop", "summary"} =>
              Len(results.success) + Len(results.failures) = Len(tasks)
        /\ \A k \in DOMAIN tasks :
              (k < Len(tasks) \/ pc \in {"loop", "summary"}) =>
                  /\ tasks[k].pc = "done"
                  /\ tasks[k].outcome = "raised" =>
                        \E j \in DOMAIN results.failures :
                            results.failures[j] = [error |-> tasks[k].error, url |-> urls[k]]
                  /\ tasks[k].outcome = "returned" =>
                        \E j \in DOMAIN results.success :
                            results.success[j] = tasks[k].content
        /\ pc = "summary" =>
              /\ CalledUrls = urls
              /\ Len(results.success) + Len(results.failures) = Len(urls)
              /\ \A k \in DOMAIN urls : FiledOnce(k)

\* a file whose first url fails and whose second succeeds, both filed
C23_Witness ==
    /\ mode = "batch" /\ pc = "summary"
    /\ input_file = <<"not a url", " https://youtu.be/dQw4w9WgXcQ ">>
    /\ Len(results.failures) = 1 /\ results.failures[1].url = "not a url"
    /\ Len(results.success) = 1 /\ results.success[1].url = "https://youtu.be/dQw4w9WgXcQ"
    /\ results.success[1].notion_page_id # ""

(***************************************************************************)
(* Claims about add_to_database.                                           *)
(***************************************************************************)
\* the call t ended, and the page creation had raised in it
CreateFailed(t) ==
    tasks[t].pc = "done" /\ tasks[t].error = "Error adding to Notion database"

\* the call t ended, and only the schema lookup had raised in it
SchemaFailed(t) ==
    tasks[t].pc = "done" /\ tasks[t].error = "Error retrieving database schema"

\* the call t is one of process, not of add_to_database by itself
CallOfProcess(t) == tasks[t].log # <<>>

\* process came back from add_to_database, reported 100% and returned
ReportedSuccess(t) ==
    /\ tasks[t].outcome = "returned"
    /\ tasks[t].log = StageOrder
    /\ tasks[t].reports[Len(tasks[t].reports)] = 100

\* C24 as stated: when the schema lookup or the page creation inside
\* add_to_database raises, add_to_database does not raise: it returns the
\* record with neither notion_page_id nor notion_url set, and process then
\* returns normally after reporting 100%; only a missing or empty summary
\* makes add_to_database raise.
C24_StoreErrorLeavesNoPageId ==
    mode = "publish" =>
        \A t \in DOMAIN tasks :
            /\ (CreateFailed(t) \/ SchemaFailed(t)) =>
                  /\ tasks[t].outcome = "returned"
                  /\ tasks[t].content.notion_page_id = ""
                  /\ tasks[t].content.notion_url = ""
                  /\ CallOfProcess(t) => ReportedSuccess(t)
            /\ (tasks[t].pc = "done" /\ ~CallOfProcess(t)) =>
                  (tasks[t].outcome = "raised" <=> tasks[t].content.summary = "")

\* C24, amended: add_to_database raises only for a missing or empty summary.
\* When the page creation raises it returns the record with neither
\* notion_page_id nor notion_url set and no page is stored; when only the
\* schema lookup raises, the page is created without properties and both
\* are set.  Either way process then reports 100% and returns normally.
C24_CreateErrorLeavesNoPageId ==
    mode = "publish" =>
        \A t \in DOMAIN tasks :
            /\ CreateFailed(t) =>
                  /\ tasks[t].outcome = "returned"
                  /\ tasks[t].content.summary # ""
                  /\ tasks[t].content.notion_page_id = ""
                  /\ tasks[t].content.notion_url = ""
                  /\ store = <<>>
                  /\ CallOfProcess(t) => ReportedSuccess(t)
            /\ SchemaFailed(t) =>
                  /\ tasks[t].outcome = "returned"
                  /\ tasks[t].content.notion_page_id # ""
                  /\ tasks[t].content.notion_url # ""
                  /\ Len(store) = 1 /\ store[1].title = "" /\ store[1].url = ""
                  /\ CallOfProcess(t) => ReportedSuccess(t)
            /\ (tasks[t].pc = "done" /\ ~CallOfProcess(t)) =>
                  (tasks[t].outcome = "raised" <=> tasks[t].content.summary = "")
            /\ (tasks[t].pc = "done" /\ CallOfProcess(t) /\ tasks[t].log = StageOrder) =>
                  tasks[t].outcome = "returned"
            /\ (tasks[t].outcome = "returned" /\ tasks[t].error = "") =>
                  /\ tasks[t].content.notion_page_id # ""
                  /\ Len(store) = 1 /\ store[1].url = tasks[t].url

\* a call of process that reported 100% and returned after the page creation
\* had failed
C24_Witness ==
    /\ mode = "publish"
    /\ tasks[1].outcome = "returned"
    /\ tasks[1].error = "Error adding to Notion database"
    /\ tasks[1].reports = <<5, 10, 30, 40, 70, 80, 100>>
    /\ tasks[1].content.notion_url = ""

(***************************************************************************)
(* C25: what the title decision and the block conversion change.           *)
(***************************************************************************)
\* the fields of the content record other than the title
OtherFields == DOMAIN EmptyContent \ {"title"}

\* the step is the title decision of the call t
IsInferStep(t) == tasks[t].pc = "infer_title" /\ tasks'[t].pc = "publish"

\* the step is the call of add_to_database of the call t, and it returned
IsPublishStep(t) == tasks[t].pc = "publish" /\ tasks'[t].outcome = "returned"

\* the platform title is kept as it is
KeptAsIs(c) == c.title # "" /\ ~StartsWith(c.title, "YouTube Summary - ")
               /\ \E k \in 1..(Len(c.title) - 1) : At(c.title, k) \in UpperSet

\* the platform title is missing or a placeholder and nothing is extracted
NothingExtracted(c) ==
    /\ c.title = "" \/ StartsWith(c.title, "YouTube Summary - ")
    /\ extract_title_from_summary(c.summary) \in {None, Some("")}

\* C25: the title decision of process changes at most the title of the
\* content record and leaves the other fields as they are; it leaves the
\* whole record as it is when the title is not a placeholder and has an
\* upper-case character after its first, and when the title is missing or a
\* placeholder and no title is extracted; the blocks of the page are the
\* heading and the conversion of the summary, and storing them changes
\* nothing of the record but the id and the url of the page.
C25_TitleDecisionFrame ==
    [][mode = "infer" =>
        \A t \in DOMAIN tasks :
            /\ IsInferStep(t) =>
                  /\ DOMAIN tasks'[t].content = DOMAIN tasks[t].content
                  /\ \A f \in OtherFields : tasks'[t].content[f] = tasks[t].content[f]
                  /\ KeptAsIs(tasks[t].content) => tasks'[t].content = tasks[t].content
                  /\ NothingExtracted(tasks[t].content) =>
                        tasks'[t].content = tasks[t].content
                  /\ store' = store
            /\ IsPublishStep(t) =>
                  /\ \A f \in DOMAIN EmptyContent \ {"notion_page_id", "notion_url"} :
                        tasks'[t].content[f] = tasks[t].content[f]
                  /\ store' # store =>
                        /\ Len(store') = Len(store) + 1
                        /\ store'[Len(store')].children =
                              <<header_block>> \o
                              convert_markdown_to_notion_blocks(tasks[t].content.summary)]_vars

\* the title decision gave an all-lower-case title its capitals and left
\* the transcript, the summary, the url and the id where they were
C25_Witness ==
    /\ mode = "infer"
    /\ tasks[1].pc = "publish"
    /\ tasks[1].log = <<"validate", "fetch", "summarize", "infer_title">>
    /\ tasks[1].content.title = "How to Bake Bread"
    /\ tasks[1].content.summary = "## Overview\nA talk."
    /\ tasks[1].content.transcript = TranscriptOf("dQw4w9WgXcQ")
    /\ tasks[1].content.url = "https://youtu.be/dQw4w9WgXcQ"
    /\ tasks[1].content.id = "dQw4w9WgXcQ"

====
